---- MODULE Spec2Model ----
(***************************************************************************)
(* A model of the 2048-battle repository: the grid engine                  *)
(* (common/backend/grid/grid.go), the game session that wraps it, and the  *)
(* peer synchronisation of the join and multiplayer screens.               *)
(***************************************************************************)
EXTENDS Integers, Sequences, FiniteSets, TLC

(***************************************************************************)
(* Bounds of the model (not program constants).                            *)
(***************************************************************************)
\* the random source yields one of the first MaxRand candidate cells
MaxRand == 2
\* the boards the pure-function specification starts from hold 0, 2 .. 2^MaxExp
\* and the winning tile
MaxExp == 2
\* the number of Move and Reset calls of a run of the step-by-step Move
MaxCalls == 2
\* the number of Move and Reset calls that follow the first Reset of two
\* grids run side by side
MaxSteps == 2
\* the number of presses of the Join button
MaxJoins == 2
\* the number of games a NewGame of a screen is drawn from
MaxGames == 2
\* the number of messages that arrive damaged or of an unknown type
MaxBad == 1
\* the key presses that may each be of any arrow key; later presses repeat
\* the last key
MaxFreeKeys == 2
\* the number of moves the update loop executes
MaxMoves == 2

(***************************************************************************)
(* Program constants.                                                      *)
(***************************************************************************)
GridSize == 4
emptyTile == 0
WinTile == 2048

DirUp == "up"
DirDown == "down"
DirLeft == "left"
DirRight == "right"
Directions == {DirUp, DirDown, DirLeft, DirRight}
\* the zero value of Grid.LastMove in a freshly constructed grid
NoDirection == ""

None == "none"
Win == "win"
Lose == "lose"

Idx == 0 .. (GridSize - 1)
Cells == Idx \X Idx

(***************************************************************************)
(* Tiles.  A UUID is modelled as the value of a counter that every         *)
(* uuid.NewV7() call increments: fresh and unique.                         *)
(***************************************************************************)
Tile(v, c, u) == [Val |-> v, Cmb |-> c, UUID |-> u]

\* NewTiles: every cell empty, each with a fresh UUID, drawn in row-major
\* order starting after ctr.
NewTiles(ctr) ==
    [i \in Idx |-> [j \in Idx |-> Tile(emptyTile, FALSE, ctr + i * GridSize + j + 1)]]

\* a variant that returns the grid as it is
transpose_same(matrix) == matrix

transpose(matrix) == [j \in Idx |-> [i \in Idx |-> matrix[i][j]]]

ValsOf(tiles) == [i \in Idx |-> [j \in Idx |-> tiles[i][j].Val]]

NumTiles(tiles) == Cardinality({c \in Cells : tiles[c[1]][c[2]].Val # 0})

RECURSIVE SumSeq(_)
SumSeq(s) == IF s = <<>> THEN 0 ELSE Head(s) + SumSeq(Tail(s))

\* the sum of all tile values of a board
Mass(tiles) ==
    SumSeq([k \in 1 .. (GridSize * GridSize) |->
              tiles[(k - 1) \div GridSize][(k - 1) % GridSize].Val])

SetMax(S) == CHOOSE x \in S : \A y \in S : y <= x
SetMin(S) == CHOOSE x \in S : \A y \in S : x <= y

HighestTile(tiles) == SetMax({0} \cup {tiles[c[1]][c[2]].Val : c \in Cells})

(***************************************************************************)
(* Outcome.                                                                *)
(***************************************************************************)
\* the second loop of isLoss: an equal pair side by side in some row
HasEqualInRows(t) ==
    \E i \in Idx : \E j \in 0 .. (GridSize - 2) : t[i][j].Val = t[i][j + 1].Val

\* a variant that checks the rows only
isLoss_rowsOnly(tiles) ==
    IF \E i \in Idx : \E j \in Idx : tiles[i][j].Val = emptyTile THEN FALSE
    ELSE IF HasEqualInRows(tiles) THEN FALSE
    ELSE TRUE

isLoss(tiles) ==
    IF \E i \in Idx : \E j \in Idx : tiles[i][j].Val = emptyTile THEN FALSE
    ELSE IF HasEqualInRows(tiles) THEN FALSE
    ELSE IF HasEqualInRows(transpose(tiles)) THEN FALSE
    ELSE TRUE

Outcome(tiles) ==
    IF isLoss(tiles) THEN Lose
    ELSE IF HighestTile(tiles) >= WinTile THEN Win
    ELSE None

(***************************************************************************)
(* The slide/merge engine.                                                 *)
(***************************************************************************)
\* newIter(len, reverse) with hasNext/next: the indices in the order visited
IterOrder(len, reverse) ==
    [k \in 1 .. len |-> IF reverse THEN len - k ELSE k - 1]

\* a variant that looks at the flag of the moving tile only
alreadyCombined_srcOnly(g, i, newPos) == g[i].Cmb

\* a variant that never refuses a merge
alreadyCombined_never(g, i, newPos) == FALSE

alreadyCombined(g, i, newPos) == g[i].Cmb \/ g[newPos].Cmb

\* a variant that adds 2 to the destination instead of the value of the source
combinedVal_plusTwo(dst, src) == dst + 2

\* a variant that leaves the destination's value as it was
combinedVal_keep(dst, src) == dst

\* g[newPos].Val += g[i].Val
combinedVal(dst, src) == dst + src

\* One call of moveStep on a row g.  ctr is the UUID counter.  The result
\* carries the row, whether a tile moved, the points, the counter, and (for
\* the merge-once property) the identities of the tiles of a merge.
moveStep(g, dir, ctr) ==
    LET reverse == dir \in {DirRight, DirDown}
        order == IterOrder(GridSize, reverse)
        np(i) == IF reverse THEN i + 1 ELSE i - 1
        valid(i) == np(i) >= 0 /\ np(i) < GridSize
        combines(i) == g[np(i)].Val = g[i].Val /\ ~alreadyCombined(g, i, np(i))
        acts(i) == /\ valid(i)
                   /\ g[i].Val # emptyTile
                   /\ (combines(i) \/ g[np(i)].Val = emptyTile)
        hits == {k \in 1 .. GridSize : acts(order[k])}
    IN  IF hits = {}
        THEN [row |-> g, moved |-> FALSE, points |-> 0, ctr |-> ctr, merges |-> {}]
        ELSE LET i == order[SetMin(hits)]
                 n == np(i)
             IN  IF combines(i)
                 THEN [row |-> [g EXCEPT
                                  ![n] = Tile(combinedVal(g[n].Val, g[i].Val), TRUE, ctr + 1),
                                  ![i] = Tile(emptyTile, g[i].Cmb, ctr + 2)],
                       moved |-> TRUE,
                       points |-> combinedVal(g[n].Val, g[i].Val),
                       ctr |-> ctr + 2,
                       merges |-> {[src |-> g[i].UUID, dst |-> g[n].UUID,
                                    out |-> ctr + 1]}]
                 ELSE [row |-> [g EXCEPT ![n] = g[i],
                                         ![i] = Tile(emptyTile, FALSE, ctr + 1)],
                       moved |-> TRUE,
                       points |-> 0,
                       ctr |-> ctr + 1,
                       merges |-> {}]

\* The state of a running move: the board, the UUID counter, the locals
\* moved, movedThisTurn and pointsGained, and the merges made so far.
MoveState(tiles, ctr) ==
    [tiles |-> tiles, ctr |-> ctr, moved |-> FALSE, movedThisTurn |-> FALSE,
     points |-> 0, merges |-> {}]

ClearCmb_keep(tiles) == tiles
ClearCmb(tiles) == [i \in Idx |-> [j \in Idx |-> [tiles[i][j] EXCEPT !.Cmb = FALSE]]]

\* a variant that adds up the points of the merges
pointsGained_sum(old, points) == old + points

\* if points > 0 { pointsGained = points }
pointsGained(old, points) == IF points > 0 THEN points ELSE old

\* the body of the loop over the rows: transpose, moveStep on the row,
\* transpose back, and the bookkeeping
rowStep(st, row, dir) ==
    LET vertical == dir \in {DirUp, DirDown}
        t1 == IF vertical THEN transpose(st.tiles) ELSE st.tiles
        r == moveStep(t1[row], dir, st.ctr)
        t2 == [t1 EXCEPT ![row] = r.row]
        t3 == IF vertical THEN transpose(t2) ELSE t2
    IN  [tiles |-> t3,
         ctr |-> r.ctr,
         moved |-> st.moved \/ r.moved,
         movedThisTurn |-> st.movedThisTurn \/ r.moved,
         points |-> pointsGained(st.points, r.points),
         merges |-> st.merges \cup r.merges]

RECURSIVE movePass(_, _, _)
movePass(st, row, dir) ==
    IF row = GridSize THEN st
    ELSE movePass(rowStep(st, row, dir), row + 1, dir)

RECURSIVE moveLoop(_, _)
moveLoop(st, dir) ==
    LET after == movePass([st EXCEPT !.movedThisTurn = FALSE], 0, dir)
    IN  IF after.movedThisTurn THEN moveLoop(after, dir) ELSE after

\* Grid.move: clear the flags, then passes until nothing moves
move(tiles, dir, ctr) == moveLoop(MoveState(ClearCmb(tiles), ctr), dir)

(***************************************************************************)
(* Random choices.                                                         *)
(***************************************************************************)
CellNo(c) == c[1] * GridSize + c[2]

\* the first MaxRand cells of S in row-major order
FirstCells(S) ==
    {c \in S : Cardinality({d \in S : CellNo(d) < CellNo(c)}) < MaxRand}

EmptyCells_all(tiles) == Cells
EmptyCells(tiles) == {c \in Cells : tiles[c[1]][c[2]].Val = emptyTile}

newTileVal == {2, 4}

\* a variant whose new value follows the UUID drawn instead of the draw of
\* newTileVal
spawnTile_byUUID(tiles, c, v, ctr) ==
    [tiles EXCEPT ![c[1]][c[2]] =
        [@ EXCEPT !.Val = IF (ctr + 1) % 2 = 0 THEN 2 ELSE 4, !.UUID = ctr + 1]]

\* spawnTile: a random empty cell gets a new value and a fresh UUID
spawnTile(tiles, c, v, ctr) ==
    [tiles EXCEPT ![c[1]][c[2]] = [@ EXCEPT !.Val = v, !.UUID = ctr + 1]]

\* a variant that writes the second value without the retry that makes the
\* second cell another one than the first
ResetTiles_sameCell(ctr, tile1, tile2, v1, v2) ==
    [NewTiles(ctr) EXCEPT ![tile1[1]][tile1[2]].Val = v2]

\* Reset: fresh tiles, two distinct random cells get a new value
ResetTiles(ctr, tile1, tile2, v1, v2) ==
    LET t0 == NewTiles(ctr)
        t1 == [t0 EXCEPT ![tile1[1]][tile1[2]].Val = v1]
    IN  [t1 EXCEPT ![tile2[1]][tile2[2]].Val = v2]

\* NewGrid: fresh tiles and a Reset; LastMove has its zero value
NewGrids(ctr) ==
    UNION {{[Tiles |-> ResetTiles(ctr + GridSize * GridSize, tile1, tile2, v1, v2),
             LastMove |-> NoDirection] :
               tile2 \in FirstCells(Cells) \ {tile1},
               v1 \in newTileVal, v2 \in newTileVal} : tile1 \in FirstCells(Cells)}

(***************************************************************************)
(* State.                                                                  *)
(***************************************************************************)
VARIABLES
    grid,       \* the Grid: Tiles and LastMove
    uuidCtr,    \* the number of UUIDs drawn so far
    prev,       \* history: the Tiles before the last operation
    op,         \* history: the last operation and what it returned
    mu,         \* Grid.mu: TRUE while a Move call holds the lock
    mv,         \* the locals and the position of the Move call in progress
    seen,       \* history: what the last unlocked read of the Tiles saw
    calls,      \* the number of Move and Reset calls made so far
    twin,       \* a second Grid that is given the same calls with the same draws
    wire,       \* a message, the bytes Serialise made of it and what the parsers returned
    screen,     \* per peer: the screen it is on
    version,    \* per peer: config.Version of its build
    client,     \* the guest's servesyouright.Client
    server,     \* the host's servesyouright.Server
    net,        \* per peer: the messages in flight to it, oldest first
    handler,    \* per peer: the screen whose callback is set on the transport
    backend,    \* per peer: MultiplayerScreen.backend, its own game
    opponentBackend, \* per peer: MultiplayerScreen.opponentBackend, the mirror
    join,       \* the fields and goroutines of the guest's MultiplayerJoinScreen
    lobby,      \* the host's screen before the match
    input,      \* per peer: arenaInputCh and the key presses made
    moves,      \* the number of moves executed by Update so far
    recv,       \* history: the last message handled, by whom, and the error returned
    rejected    \* history: per peer, whether it has received PlayerData of another version

gridVars == <<grid, uuidCtr, prev, op>>
concVars == <<mu, mv, seen, calls, twin, wire>>
peerVars == <<screen, version, client, server, net, handler, backend,
              opponentBackend, join, lobby, input, moves, recv, rejected>>
vars == <<gridVars, concVars, peerVars>>

OpRec(name, dir, points, moved, spawnAt, spawnVal, outcome, merges) ==
    [name |-> name, dir |-> dir, points |-> points, moved |-> moved,
     spawnAt |-> spawnAt, spawnVal |-> spawnVal, outcome |-> outcome,
     merges |-> merges]

NoOp == OpRec("init", NoDirection, 0, FALSE, <<0, 0>>, 0, None, {})

MoveRec(pc, dir, row, moved, movedThisTurn, points, merges, spawnAt, spawnVal) ==
    [pc |-> pc, dir |-> dir, row |-> row, moved |-> moved,
     movedThisTurn |-> movedThisTurn, points |-> points, merges |-> merges,
     spawnAt |-> spawnAt, spawnVal |-> spawnVal]

IdleMove == MoveRec("idle", NoDirection, 0, FALSE, FALSE, 0, {}, <<0, 0>>, 0)

\* an unlocked read: the values read and whether a Move held the lock
\* the second Grid: its Tiles and LastMove, the points its last Move
\* returned and the number of UUIDs it has drawn
TwinRec(tiles, lastMove, points, ctr) ==
    [Tiles |-> tiles, LastMove |-> lastMove, points |-> points, ctr |-> ctr]

NoTwin == TwinRec(<<>>, NoDirection, 0, 0)

NoRead == [tiles |-> <<>>, during |-> FALSE]

\* a message x, the bytes made of it, the message the parsers made of the
\* bytes, and how far the round has come
WireRec(x, bytes, out, stage) == [x |-> x, bytes |-> bytes, out |-> out, stage |-> stage]

(***************************************************************************)
(* The two peers.  The game session (backend.Game) wraps a Grid with the   *)
(* score; the messages are the four kinds of the comms package.            *)
(***************************************************************************)
Host == "host"
Guest == "guest"
Peers == {Host, Guest}
Other(p) == IF p = Host THEN Guest ELSE Host

\* the versions a build may carry
Versions == {"1.0", "1.1"}
\* the text of a peer's name entry
Username(p) == IF p = Host THEN "host-name" ELSE "guest-name"

NoGame == [Grid |-> [Tiles |-> <<>>, LastMove |-> NoDirection], Score |-> -1]

\* backend.NewGame: a new Grid and no points
NewGames(ctr) == {[Grid |-> g, Score |-> 0] : g \in {x \in NewGrids(ctr) : NumTiles(x.Tiles) = 2}}

\* a number that tells the games of NewGames apart: the values of the first
\* row, the only row a new tile is drawn in
GameKey(game) ==
    SumSeq([k \in 1 .. GridSize |-> game.Grid.Tiles[0][k - 1].Val * 8 ^ (k - 1)])

\* the first MaxGames keys of the games of NewGames
FewKeys ==
    LET keys == {GameKey(game) : game \in NewGames(0)}
    IN  {k \in keys : Cardinality({j \in keys : j < k}) < MaxGames}

\* the games of NewGames with these keys
FewGames(ctr) == {game \in NewGames(ctr) : GameKey(game) \in FewKeys}

\* the UUIDs one NewGame draws: NewTiles in NewGrid and again in Reset
UUIDsPerGame == 2 * GridSize * GridSize

TypePlayerData == "PlayerData"
TypeGameData == "GameData"
TypeEventData == "EventData"
TypeRequestData == "RequestData"
EventScreenLoaded == "ScreenLoaded"
EventHostStartGame == "HostStartGame"

\* Serialise: the envelope of type and content that travels
Message(type, content) == [type |-> type, content |-> content]
PlayerDataMsg(p, v) == Message(TypePlayerData, [Version |-> v, Username |-> Username(p)])
GameDataMsg(game) == Message(TypeGameData, [Game |-> game])
EventDataMsg(event) == Message(TypeEventData, [Event |-> event])
RequestDataMsg(type) == Message(TypeRequestData, [Request |-> type])

ErrNone == "nil"
ErrIncompatible == "incompatible versions"
ErrUnsupported == "unsupported message type"
ErrParse == "failed to parse"

NoMessage == Message("none", <<>>)

(***************************************************************************)
(* The wire format.  The Grid and its Tiles are encoded as their struct    *)
(* tags say: the unexported mu is left out, Tiles travels under "tiles" as *)
(* an array of arrays of objects with the keys val, cmb and uuid, the UUID *)
(* as text, and LastMove under its own name.  A JSON array is a sequence   *)
(* counted from 1, an object a record; a key that is missing leaves the    *)
(* zero value in the field.  The envelope carries the type tag before the  *)
(* content.                                                                *)
(***************************************************************************)
\* the text of a number: its decimal digits, the most significant first
RECURSIVE Digits(_)
Digits(n) == IF n < 10 THEN <<n>> ELSE Append(Digits(n \div 10), n % 10)

RECURSIVE FromDigits(_)
FromDigits(s) == IF s = <<>> THEN 0 ELSE 10 * FromDigits(SubSeq(s, 1, Len(s) - 1)) + s[Len(s)]

\* the value under key k of object o, or the zero value
Field(o, k, zero) == IF k \in DOMAIN o THEN o[k] ELSE zero

jsonTile_noCmb(t) == [val |-> t.Val, uuid |-> Digits(t.UUID)]
jsonTile(t) == [val |-> t.Val, cmb |-> t.Cmb, uuid |-> Digits(t.UUID)]

jsonTiles(tiles) ==
    [i \in 1 .. GridSize |-> [j \in 1 .. GridSize |-> jsonTile(tiles[i - 1][j - 1])]]

jsonGrid(g) == [tiles |-> jsonTiles(g.Tiles), LastMove |-> g.LastMove]

jsonGame(game) == [grid |-> jsonGrid(game.Grid), score |-> game.Score]

jsonContent(type, c) ==
    CASE type = TypePlayerData -> [version |-> c.Version, username |-> c.Username]
      [] type = TypeGameData -> [game |-> jsonGame(c.Game)]
      [] type = TypeEventData -> [event |-> c.Event]
      [] type = TypeRequestData -> [request |-> c.Request]

\* Serialise: the bytes of a message, the type tag first
Serialise(m) == <<m.type, jsonContent(m.type, m.content)>>

tileOf(o) == Tile(Field(o, "val", 0), Field(o, "cmb", FALSE), FromDigits(Field(o, "uuid", <<>>)))

tilesOf(a) == [i \in Idx |-> [j \in Idx |-> tileOf(a[i + 1][j + 1])]]

gridOf(o) == [Tiles |-> tilesOf(o.tiles), LastMove |-> Field(o, "LastMove", NoDirection)]

gameOf(o) == [Grid |-> gridOf(o.grid), Score |-> Field(o, "score", 0)]

\* comms.ParseMessage: the type tag and the content, still encoded
ParseMessage(bytes) == [type |-> bytes[1], content |-> bytes[2]]

ParsePlayerData(c) == [Version |-> Field(c, "version", ""), Username |-> Field(c, "username", "")]
ParseGameData(c) == [Game |-> gameOf(c.game)]
ParseEventData(c) == [Event |-> Field(c, "event", "")]
ParseRequestData(c) == [Request |-> Field(c, "request", "")]

\* the parser the switch of a callback picks for a type
ParseContent(type, c) ==
    CASE type = TypePlayerData -> ParsePlayerData(c)
      [] type = TypeGameData -> ParseGameData(c)
      [] type = TypeEventData -> ParseEventData(c)
      [] type = TypeRequestData -> ParseRequestData(c)

NoWire == WireRec(NoMessage, <<>>, NoMessage, "none")
\* history: the last message a callback handled, the error it returned, the
\* number of messages handled and the number of ScreenLoaded events handled
\* by a callback other than the multiplayer screen's
\* what a parser that fails returns with its error: the zero value
BadContent ==
    [Event |-> "", Request |-> "", Version |-> "", Username |-> "",
     Game |-> NoGame, malformed |-> TRUE]

\* bytes that ParseMessage refuses
Unparsable == Message("", BadContent)

TypeUnknown == "Unknown"
Types == {TypePlayerData, TypeGameData, TypeEventData, TypeRequestData}

\* comms.ParseMessage and the parsers of the contents succeed
ParsesAsMessage(m) == m # Unparsable
ParsesAs(type, content) == content # BadContent

\* the damaged messages a peer can receive
BadMessages ==
    {Unparsable, Message(TypeUnknown, BadContent)}
        \cup {Message(t, BadContent) : t \in Types}

\* the types the switch of a callback has a case for
handledTypes(h) ==
    IF h = "join" THEN {TypeEventData, TypePlayerData}
    ELSE IF h = "multiplayer" THEN {TypeGameData, TypeEventData, TypeRequestData}
    ELSE {}

\* a variant that ignores the errors of the parsers
parseFailure_ignored(m, types) == FALSE

\* ParseMessage returns an error, or the parser of the content of a handled
\* type does
parseFailure(m, types) ==
    \/ ~ParsesAsMessage(m)
    \/ m.type \in types /\ ~ParsesAs(m.type, m.content)

\* the callback h can only drop the message m
IsBad(h, m) ==
    \/ ~ParsesAsMessage(m)
    \/ m.type \notin handledTypes(h)
    \/ ~ParsesAs(m.type, m.content)

RecvRec(to, msg, err, n, early, bad) ==
    [to |-> to, msg |-> msg, err |-> err, n |-> n, early |-> early, bad |-> bad]

BadSoFar(h, m) == recv.bad + (IF IsBad(h, m) THEN 1 ELSE 0)

IsScreenLoaded(m) == m.type = TypeEventData /\ m.content.Event = EventScreenLoaded
Early(m) == recv.early + (IF IsScreenLoaded(m) THEN 1 ELSE 0)

\* the connection carries messages while both ends exist
LinkUp == client = "connected" /\ server = "listening"

\* client.Write / server.WriteToClient: the messages join the queue to the
\* peer; a write on a connection that is gone delivers nothing
Sent(from, msgs) ==
    IF LinkUp THEN [net EXCEPT ![Other(from)] = @ \o msgs] ELSE net

\* armed: the Join button calls joinButtonHandler; status: the text of
\* opponentStatus; animLoops, readyWaiters, errRelays, clears: the goroutines
\* running the status animation, waiting on hostIsReady, relaying errCh,
\* sleeping before they clear the status; starting: a goroutine has taken
\* hostIsReady and will change the screen; done: the signals in the done channel
JoinRec(armed, opponentName, status, animLoops, readyWaiters, starting, done, errRelays, clears, presses) ==
    [armed |-> armed, opponentName |-> opponentName, status |-> status,
     animLoops |-> animLoops, readyWaiters |-> readyWaiters,
     starting |-> starting, done |-> done, errRelays |-> errRelays,
     clears |-> clears, presses |-> presses]

\* MultiplayerJoinScreen after Enter
NewJoin == JoinRec(TRUE, "", "", 0, 0, FALSE, 0, 0, 0, 0)

LobbyRec(greeted, started, opponentName, status) ==
    [greeted |-> greeted, started |-> started, opponentName |-> opponentName,
     status |-> status]

NewLobby == LobbyRec(FALSE, FALSE, "", "")

InputRec(ch, blocked, pending, presses, lastKey) ==
    [ch |-> ch, blocked |-> blocked, pending |-> pending, presses |-> presses,
     lastKey |-> lastKey]

NoInput == InputRec(<<>>, FALSE, NoDirection, 0, NoDirection)

\* the peers of a specification that has none
NoPeers ==
    /\ screen = [p \in Peers |-> "none"]
    /\ version = [p \in Peers |-> "1.1"]
    /\ client = "none"
    /\ server = "none"
    /\ net = [p \in Peers |-> <<>>]
    /\ handler = [p \in Peers |-> "none"]
    /\ backend = [p \in Peers |-> NoGame]
    /\ opponentBackend = [p \in Peers |-> NoGame]
    /\ join = NewJoin
    /\ lobby = NewLobby
    /\ input = [p \in Peers |-> NoInput]
    /\ moves = 0
    /\ recv = RecvRec("none", NoMessage, ErrNone, 0, 0, 0)
    /\ rejected = [p \in Peers |-> FALSE]

(***************************************************************************)
(* Operations of the Grid.                                                 *)
(***************************************************************************)
\* Grid.Move as one step
Move(dir) ==
    \E m \in {move(grid.Tiles, dir, uuidCtr)} :
        IF m.moved
        THEN \E c \in FirstCells(EmptyCells(m.tiles)) : \E v \in newTileVal :
                /\ grid' = [Tiles |-> spawnTile(m.tiles, c, v, m.ctr), LastMove |-> dir]
                /\ uuidCtr' = m.ctr + 1
                /\ prev' = grid.Tiles
                /\ op' = OpRec("Move", dir, m.points, TRUE, c, v, None, m.merges)
                /\ UNCHANGED <<concVars, peerVars>>
        ELSE /\ grid' = [Tiles |-> m.tiles, LastMove |-> dir]
             /\ uuidCtr' = m.ctr
             /\ prev' = grid.Tiles
             /\ op' = OpRec("Move", dir, m.points, FALSE, <<0, 0>>, 0, None, m.merges)
             /\ UNCHANGED <<concVars, peerVars>>

\* Grid.Reset
Reset ==
    \E tile1 \in FirstCells(Cells) : \E tile2 \in FirstCells(Cells) \ {tile1} :
    \E v1 \in newTileVal : \E v2 \in newTileVal :
        /\ grid' = [grid EXCEPT !.Tiles = ResetTiles(uuidCtr, tile1, tile2, v1, v2)]
        /\ uuidCtr' = uuidCtr + GridSize * GridSize
        /\ prev' = grid.Tiles
        /\ op' = OpRec("Reset", NoDirection, 0, FALSE, <<0, 0>>, 0, None, {})
        /\ UNCHANGED <<concVars, peerVars>>

\* Grid.Outcome, called by a screen's Update
CallOutcome ==
    /\ op' = OpRec("Outcome", NoDirection, 0, FALSE, <<0, 0>>, 0, Outcome(grid.Tiles), {})
    /\ prev' = grid.Tiles
    /\ UNCHANGED <<grid, uuidCtr>>
    /\ UNCHANGED <<concVars, peerVars>>

(***************************************************************************)
(* Boards the pure-function specification starts from: a row of values     *)
(* laid out as the single non-empty row or column of the board, or as      *)
(* every row of it, some rows reversed.                                    *)
(***************************************************************************)
FamVals == {0} \cup {2 ^ k : k \in 1 .. MaxExp} \cup {WinTile}
FamRows == [Idx -> FamVals]
Patterns == {<<0, 0, 0, 0>>, <<0, 1, 0, 1>>, <<0, 0, 1, 1>>, <<0, 1, 1, 0>>}

WithIds(vals) ==
    [i \in Idx |-> [j \in Idx |-> Tile(vals[i][j], FALSE, i * GridSize + j + 1)]]

RowBoard(r, k) == [i \in Idx |-> [j \in Idx |-> IF i = k THEN r[j] ELSE 0]]
FullBoard(r, p) ==
    [i \in Idx |-> [j \in Idx |-> IF p[i + 1] = 0 THEN r[j] ELSE r[GridSize - 1 - j]]]

FamBoards ==
    LET raw == {RowBoard(r, k) : r \in FamRows, k \in Idx}
               \cup {transpose(RowBoard(r, k)) : r \in FamRows, k \in Idx}
               \cup {FullBoard(r, p) : r \in FamRows, p \in Patterns}
    IN  {WithIds(b) : b \in {x \in raw : \E c, d \in Cells : c # d /\ x[c[1]][c[2]] # 0
                                                          /\ x[d[1]][d[2]] # 0}}

(***************************************************************************)
(* Spec: one operation of the Grid applied to a board.                     *)
(***************************************************************************)
Init ==
    /\ grid \in {[Tiles |-> b, LastMove |-> d] : b \in FamBoards, d \in {NoDirection}}
    /\ uuidCtr = GridSize * GridSize
    /\ prev = grid.Tiles
    /\ op = NoOp
    /\ mu = FALSE
    /\ mv = IdleMove
    /\ seen = NoRead
    /\ calls = 0
    /\ twin = NoTwin
    /\ wire = NoWire
    /\ NoPeers

Next ==
    /\ op.name = "init"
    /\ \/ \E dir \in Directions : Move(dir)
       \/ Reset
       \/ CallOutcome

Spec == Init /\ [][Next]_vars

(***************************************************************************)
(* SpecDet: two grids side by side.  The first is new, the second has been *)
(* played on; both are Reset and then given the same Move calls, and every *)
(* random draw has the same outcome for both.                              *)
(***************************************************************************)
\* the UUIDs of the second grid are others than those of the first
TwinOffset == 1001

\* a board that has been played on: a merged tile still carries its flag
UsedTiles ==
    move(WithIds(RowBoard([j \in Idx |-> IF j < 2 THEN 2 ELSE 4], 1)), DirRight,
         TwinOffset).tiles

\* Grid.Move after move: the tile spawned at c with value v if move moved
GridAfter(m, c, v, dir) ==
    [Tiles |-> IF m.moved THEN spawnTile(m.tiles, c, v, m.ctr) ELSE m.tiles,
     LastMove |-> dir]

InitDet ==
    /\ grid \in NewGrids(0)
    /\ uuidCtr = 2 * GridSize * GridSize
    /\ prev = grid.Tiles
    /\ op = NoOp
    /\ mu = FALSE
    /\ mv = IdleMove
    /\ seen = NoRead
    /\ calls = 0
    /\ twin = TwinRec(UsedTiles, DirRight, 0, TwinOffset + 2 * GridSize)
    /\ wire = NoWire
    /\ NoPeers

\* Reset of both grids, as the first call and again later; the draws of the
\* cells and of the values are the same
ResetBoth ==
    /\ op.name = "init" \/ calls < MaxSteps
    /\ \E tile1 \in FirstCells(Cells) : \E tile2 \in FirstCells(Cells) \ {tile1} :
       \E v1 \in newTileVal : \E v2 \in newTileVal :
          /\ grid' = [grid EXCEPT !.Tiles = ResetTiles(uuidCtr, tile1, tile2, v1, v2)]
          /\ twin' = [twin EXCEPT !.Tiles = ResetTiles(twin.ctr, tile1, tile2, v1, v2),
                                  !.points = 0,
                                  !.ctr = @ + GridSize * GridSize]
    /\ uuidCtr' = uuidCtr + GridSize * GridSize
    /\ prev' = grid.Tiles
    /\ op' = OpRec("Reset", NoDirection, 0, FALSE, <<0, 0>>, 0, None, {})
    /\ calls' = IF op.name = "init" THEN calls ELSE calls + 1
    /\ UNCHANGED <<mu, mv, seen, wire, peerVars>>

\* Move(dir) on both grids; the second grid spawns at the cell and with the
\* value drawn for the first wherever that draw is one it can make
MoveBoth(dir) ==
    /\ op.name # "init"
    /\ calls < MaxSteps
    /\ \E m1 \in {move(grid.Tiles, dir, uuidCtr)} :
       \E m2 \in {move(twin.Tiles, dir, twin.ctr)} :
       \E c \in (IF m1.moved THEN FirstCells(EmptyCells(m1.tiles)) ELSE {<<0, 0>>}) :
       \E v \in (IF m1.moved THEN newTileVal ELSE {0}) :
       \E c2 \in (IF m2.moved /\ ~(m1.moved /\ c \in EmptyCells(m2.tiles))
                  THEN FirstCells(EmptyCells(m2.tiles)) ELSE {c}) :
       \E v2 \in (IF m2.moved /\ ~m1.moved THEN newTileVal ELSE {v}) :
          /\ grid' = GridAfter(m1, c, v, dir)
          /\ uuidCtr' = m1.ctr + 1
          /\ op' = OpRec("Move", dir, m1.points, m1.moved, c, v, None, m1.merges)
          /\ twin' = TwinRec(GridAfter(m2, c2, v2, dir).Tiles, dir, m2.points,
                             m2.ctr + 1)
    /\ prev' = grid.Tiles
    /\ calls' = calls + 1
    /\ UNCHANGED <<mu, mv, seen, wire, peerVars>>

NextDet ==
    \/ ResetBoth
    \/ \E dir \in Directions : MoveBoth(dir)

SpecDet == InitDet /\ [][NextDet]_vars

(***************************************************************************)
(* Grid.Move step by step, as another goroutine sees it: the lock, the     *)
(* passes of Grid.move row by row with the transpositions written to       *)
(* g.Tiles, the spawn, the return.                                         *)
(***************************************************************************)
IsVertical(dir) == dir \in {DirUp, DirDown}

FirstPc(dir) == IF IsVertical(dir) THEN "transpose" ELSE "step"

\* a variant that starts another pass whether or not a tile moved
AfterRow_noBreak(m) ==
    IF m.row + 1 < GridSize
    THEN [m EXCEPT !.row = m.row + 1, !.pc = FirstPc(m.dir)]
    ELSE [m EXCEPT !.row = 0, !.movedThisTurn = FALSE, !.pc = FirstPc(m.dir)]

\* the end of the body of the loop over the rows: the next row, the next
\* pass when a tile moved in this one, or the end of the loop
AfterRow(m) ==
    IF m.row + 1 < GridSize
    THEN [m EXCEPT !.row = m.row + 1, !.pc = FirstPc(m.dir)]
    ELSE IF m.movedThisTurn
         THEN [m EXCEPT !.row = 0, !.movedThisTurn = FALSE, !.pc = FirstPc(m.dir)]
         ELSE [m EXCEPT !.pc = "spawn"]

\* g.mu.Lock() and the loop that clears the flags
MoveBegin(dir) ==
    /\ mv.pc = "idle"
    /\ ~mu
    /\ calls < MaxCalls
    /\ mu' = TRUE
    /\ grid' = [grid EXCEPT !.Tiles = ClearCmb(@)]
    /\ mv' = MoveRec(FirstPc(dir), dir, 0, FALSE, FALSE, 0, {}, <<0, 0>>, 0)
    /\ prev' = grid.Tiles
    /\ seen' = NoRead
    /\ calls' = calls + 1
    /\ UNCHANGED <<uuidCtr, op, twin, wire>>
    /\ UNCHANGED peerVars

\* g.Tiles = transpose(g.Tiles) before moveStep
MoveTransposeIn ==
    /\ mv.pc = "transpose"
    /\ grid' = [grid EXCEPT !.Tiles = transpose(@)]
    /\ mv' = [mv EXCEPT !.pc = "step"]
    /\ UNCHANGED <<uuidCtr, prev, op, mu, seen, calls, twin, wire>>
    /\ UNCHANGED peerVars

\* g.Tiles[row], rowMoved, points = moveStep(g.Tiles[row], dir)
MoveRow ==
    /\ mv.pc = "step"
    /\ \E r \in {moveStep(grid.Tiles[mv.row], mv.dir, uuidCtr)} :
          /\ grid' = [grid EXCEPT !.Tiles[mv.row] = r.row]
          /\ uuidCtr' = r.ctr
          /\ \E m1 \in {[mv EXCEPT !.moved = @ \/ r.moved,
                                   !.movedThisTurn = @ \/ r.moved,
                                   !.points = pointsGained(@, r.points),
                                   !.merges = @ \cup r.merges]} :
                mv' = IF IsVertical(mv.dir)
                      THEN [m1 EXCEPT !.pc = "transposeBack"]
                      ELSE AfterRow(m1)
    /\ UNCHANGED <<prev, op, mu, seen, calls, twin, wire>>
    /\ UNCHANGED peerVars

\* g.Tiles = transpose(g.Tiles) after moveStep
MoveTransposeBack ==
    /\ mv.pc = "transposeBack"
    /\ grid' = [grid EXCEPT !.Tiles = transpose(@)]
    /\ mv' = AfterRow(mv)
    /\ UNCHANGED <<uuidCtr, prev, op, mu, seen, calls, twin, wire>>
    /\ UNCHANGED peerVars

\* if didMove { g.spawnTile() }
MoveSpawn ==
    /\ mv.pc = "spawn"
    /\ IF mv.moved
       THEN \E c \in FirstCells(EmptyCells(grid.Tiles)) : \E v \in newTileVal :
               /\ grid' = [grid EXCEPT !.Tiles = spawnTile(@, c, v, uuidCtr)]
               /\ uuidCtr' = uuidCtr + 1
               /\ mv' = [mv EXCEPT !.pc = "return", !.spawnAt = c, !.spawnVal = v]
       ELSE /\ mv' = [mv EXCEPT !.pc = "return"]
            /\ UNCHANGED <<grid, uuidCtr>>
    /\ UNCHANGED <<prev, op, mu, seen, calls, twin, wire>>
    /\ UNCHANGED peerVars

\* g.LastMove = dir, the return and the deferred g.mu.Unlock()
MoveReturn ==
    /\ mv.pc = "return"
    /\ grid' = [grid EXCEPT !.LastMove = mv.dir]
    /\ mu' = FALSE
    /\ op' = OpRec("Move", mv.dir, mv.points, mv.moved, mv.spawnAt, mv.spawnVal,
                   None, mv.merges)
    /\ mv' = IdleMove
    /\ UNCHANGED <<uuidCtr, prev, seen, calls, twin, wire>>
    /\ UNCHANGED peerVars

\* A read of g.Tiles by another goroutine (the network callback copies the
\* game for sendGameData): it takes no lock.  One read per Move call is kept.
ReadTiles ==
    /\ mu
    /\ ~seen.during
    /\ seen' = [tiles |-> ValsOf(grid.Tiles), during |-> mu]
    /\ UNCHANGED <<gridVars, mu, mv, calls, twin, wire>>
    /\ UNCHANGED peerVars

\* Grid.Reset between two Move calls
ResetCall ==
    /\ mv.pc = "idle"
    /\ calls < MaxCalls
    /\ \E tile1 \in FirstCells(Cells) : \E tile2 \in FirstCells(Cells) \ {tile1} :
       \E v1 \in newTileVal : \E v2 \in newTileVal :
          /\ grid' = [grid EXCEPT !.Tiles = ResetTiles(uuidCtr, tile1, tile2, v1, v2)]
          /\ uuidCtr' = uuidCtr + GridSize * GridSize
          /\ prev' = grid.Tiles
          /\ op' = OpRec("Reset", NoDirection, 0, FALSE, <<0, 0>>, 0, None, {})
    /\ calls' = calls + 1
    /\ UNCHANGED <<mu, mv, seen, twin, wire>>
    /\ UNCHANGED peerVars

InitConc ==
    /\ grid \in {g \in NewGrids(0) : NumTiles(g.Tiles) = 2}
    /\ uuidCtr = 2 * GridSize * GridSize
    /\ prev = grid.Tiles
    /\ op = NoOp
    /\ mu = FALSE
    /\ mv = IdleMove
    /\ seen = NoRead
    /\ calls = 0
    /\ twin = NoTwin
    /\ wire = NoWire
    /\ NoPeers

NextConc ==
    \/ \E dir \in Directions : MoveBegin(dir)
    \/ MoveTransposeIn
    \/ MoveRow
    \/ MoveTransposeBack
    \/ MoveSpawn
    \/ MoveReturn
    \/ ReadTiles
    \/ ResetCall

SpecConc == InitConc /\ [][NextConc]_vars

(***************************************************************************)
(* The join screen of the guest.                                           *)
(***************************************************************************)
StatusWaiting == "Waiting for the host to start the game"
StatusFailed == "Failed to connect to host"
StatusLost == "Lost connection with host"
StatusIncompatible == "Incompatible versions"

\* a variant that accepts every version
versionsDiffer_never(peer, local) == FALSE

\* data.Version != config.Version
versionsDiffer(peer, local) == peer # local

\* a variant that leaves the Join button armed after a successful join
armedAfterJoin_still == TRUE

\* after a successful join the callback of the Join button is func() {}
armedAfterJoin == FALSE

\* joinButtonHandler: the error relay starts, joinGame connects (or fails),
\* sets the callback and sends the player data; the button is disabled and
\* a goroutine waits for the host to be ready
JoinPress ==
    /\ screen[Guest] = "join"
    /\ join.armed
    /\ join.presses < MaxJoins
    /\ \/ /\ client = "new"
          /\ server = "listening"
          /\ client' = "connected"
          /\ handler' = [handler EXCEPT ![Guest] = "join"]
          /\ net' = [net EXCEPT ![Host] = @ \o <<PlayerDataMsg(Guest, version[Guest])>>]
          /\ join' = [join EXCEPT !.armed = armedAfterJoin,
                                  !.readyWaiters = @ + 1,
                                  !.errRelays = @ + 1,
                                  !.presses = @ + 1]
       \/ /\ join' = [join EXCEPT !.status = StatusFailed,
                                  !.clears = @ + 1,
                                  !.errRelays = @ + 1,
                                  !.presses = @ + 1]
          /\ UNCHANGED <<client, handler, net>>
    /\ UNCHANGED <<gridVars, concVars, screen, version, server, backend,
                   opponentBackend, lobby, input, moves, recv, rejected>>

\* a goroutine started to clear the status wakes up
StatusTimeout ==
    /\ join.clears > 0
    /\ join' = [join EXCEPT !.status = "", !.clears = @ - 1]
    /\ UNCHANGED <<gridVars, concVars, screen, version, client, server, net,
                   handler, backend, opponentBackend, lobby, input, moves, recv,
                   rejected>>

\* the error relay receives an error of the client: the button is armed
\* again and the loss is shown
GuestConnLost ==
    /\ client = "connected"
    /\ server = "destroyed"
    /\ join.errRelays > 0
    /\ client' = "lost"
    /\ join' = [join EXCEPT !.armed = TRUE, !.status = StatusLost, !.clears = @ + 1]
    /\ UNCHANGED <<gridVars, concVars, screen, version, server, net, handler,
                   backend, opponentBackend, lobby, input, moves, recv, rejected>>

\* an animation goroutine finds done empty and writes the waiting status
AnimTick ==
    /\ join.animLoops > 0
    /\ join.done < join.animLoops
    /\ join.status # StatusWaiting
    /\ join' = [join EXCEPT !.status = StatusWaiting]
    /\ UNCHANGED <<gridVars, concVars, screen, version, client, server, net,
                   handler, backend, opponentBackend, lobby, input, moves, recv,
                   rejected>>

\* one animation goroutine finds the signal in done and returns
AnimLoopExit ==
    /\ join.done > 0
    /\ join.animLoops > 0
    /\ join' = [join EXCEPT !.done = @ - 1, !.animLoops = @ - 1]
    /\ UNCHANGED <<gridVars, concVars, screen, version, client, server, net,
                   handler, backend, opponentBackend, lobby, input, moves, recv,
                   rejected>>

\* handleServerData on the message m: the new join record, the error
\* returned and whether the peer was rejected
JoinHandled(m) ==
    IF parseFailure(m, handledTypes("join"))
    THEN [join |-> join, err |-> ErrParse, rejected |-> FALSE]
    ELSE IF m.type = TypeEventData
    THEN IF m.content.Event = EventHostStartGame
         THEN [join |-> [join EXCEPT !.readyWaiters = @ - 1, !.starting = TRUE],
               err |-> ErrNone, rejected |-> FALSE]
         ELSE [join |-> join, err |-> ErrNone, rejected |-> FALSE]
    ELSE IF m.type = TypePlayerData
    THEN IF versionsDiffer(m.content.Version, version[Guest])
         THEN [join |-> join, err |-> ErrIncompatible, rejected |-> TRUE]
         ELSE [join |-> [join EXCEPT !.opponentName = m.content.Username,
                                     !.status = StatusWaiting,
                                     !.animLoops = @ + 1],
               err |-> ErrNone, rejected |-> FALSE]
    ELSE [join |-> join, err |-> ErrUnsupported, rejected |-> FALSE]

\* the callback of the join screen runs on the oldest message in flight
DeliverJoin ==
    /\ handler[Guest] = "join"
    /\ client = "connected"
    /\ net[Guest] # <<>>
    /\ LET m == Head(net[Guest])
       IN  /\ (m.type = TypeEventData /\ m.content.Event = EventHostStartGame)
                 => join.readyWaiters > 0
           /\ \E h \in {JoinHandled(m)} :
                 /\ join' = h.join
                 /\ recv' = RecvRec(Guest, m, h.err, recv.n + 1, Early(m), BadSoFar("join", m))
                 /\ rejected' = [rejected EXCEPT ![Guest] = @ \/ h.rejected]
    /\ net' = [net EXCEPT ![Guest] = Tail(@)]
    /\ UNCHANGED <<gridVars, concVars, screen, version, client, server, handler,
                   backend, opponentBackend, lobby, input, moves>>

(***************************************************************************)
(* The screen of the host before the match.                                *)
(***************************************************************************)
\* the host greets the guest it has accepted
HostAccept ==
    /\ LinkUp
    /\ ~lobby.greeted
    /\ lobby' = [lobby EXCEPT !.greeted = TRUE]
    /\ net' = [net EXCEPT ![Guest] = @ \o <<PlayerDataMsg(Host, version[Host])>>]
    /\ UNCHANGED <<gridVars, concVars, screen, version, client, server, handler,
                   backend, opponentBackend, join, input, moves, recv, rejected>>

\* the callback of the host's screen: player data of another version ends
\* the session, player data of the same version names the opponent
DeliverLobby ==
    /\ handler[Host] = "lobby"
    /\ server = "listening"
    /\ net[Host] # <<>>
    /\ LET m == Head(net[Host])
       IN  IF m.type = TypePlayerData
           THEN IF m.content.Version # version[Host]
                THEN /\ server' = "destroyed"
                     /\ lobby' = [lobby EXCEPT !.status = StatusIncompatible]
                     /\ recv' = RecvRec(Host, m, ErrIncompatible, recv.n + 1, Early(m), recv.bad)
                     /\ rejected' = [rejected EXCEPT ![Host] = TRUE]
                ELSE /\ lobby' = [lobby EXCEPT !.opponentName = m.content.Username]
                     /\ recv' = RecvRec(Host, m, ErrNone, recv.n + 1, Early(m), recv.bad)
                     /\ UNCHANGED <<server, rejected>>
           ELSE /\ recv' = RecvRec(Host, m, ErrUnsupported, recv.n + 1, Early(m), recv.bad)
                /\ UNCHANGED <<server, lobby, rejected>>
    /\ net' = [net EXCEPT ![Host] = Tail(@)]
    /\ UNCHANGED <<gridVars, concVars, screen, version, client, handler, backend,
                   opponentBackend, join, input, moves>>

\* the host starts the match: it tells the guest
HostStart ==
    /\ screen[Host] = "lobby"
    /\ LinkUp
    /\ lobby.greeted
    /\ lobby.opponentName # ""
    /\ ~lobby.started
    /\ lobby' = [lobby EXCEPT !.started = TRUE]
    /\ net' = [net EXCEPT ![Guest] = @ \o <<EventDataMsg(EventHostStartGame)>>]
    /\ UNCHANGED <<gridVars, concVars, screen, version, client, server, handler,
                   backend, opponentBackend, join, input, moves, recv, rejected>>

(***************************************************************************)
(* The multiplayer screen.                                                 *)
(***************************************************************************)
\* MultiplayerScreen.Enter: two new games, the callback, the ScreenLoaded
\* event, the input channel
Enter(p) ==
    /\ \E own \in FewGames(uuidCtr) : \E mirror \in FewGames(uuidCtr + UUIDsPerGame) :
          /\ backend' = [backend EXCEPT ![p] = own]
          /\ opponentBackend' = [opponentBackend EXCEPT ![p] = mirror]
    /\ uuidCtr' = uuidCtr + 2 * UUIDsPerGame
    /\ handler' = [handler EXCEPT ![p] = "multiplayer"]
    /\ screen' = [screen EXCEPT ![p] = "multiplayer"]
    /\ net' = Sent(p, <<EventDataMsg(EventScreenLoaded)>>)
    /\ input' = [input EXCEPT ![p] = NoInput]

\* the host's SetScreen(Multiplayer) after it has told the guest
HostEnter ==
    /\ screen[Host] = "lobby"
    /\ lobby.started
    /\ Enter(Host)
    /\ UNCHANGED <<grid, prev, op, concVars, version, client, server, join, lobby,
                   moves, recv, rejected>>

\* the goroutine that took hostIsReady: SetScreen(Multiplayer) leaves the
\* join screen (Exit signals done) and enters the multiplayer screen
GuestEnter ==
    /\ screen[Guest] = "join"
    /\ join.starting
    /\ join.done = 0
    /\ join' = [join EXCEPT !.starting = FALSE, !.done = 1]
    /\ Enter(Guest)
    /\ UNCHANGED <<grid, prev, op, concVars, version, client, server, lobby,
                   moves, recv, rejected>>

\* a variant that sends the game data without asking for the opponent's
screenLoadedReply_noRequest(game) == <<GameDataMsg(game)>>

\* handleEventData on ScreenLoaded: sendGameData, then requestOpponentGameData
screenLoadedReply(game) == <<GameDataMsg(game), RequestDataMsg(TypeGameData)>>

\* a variant that takes the score of the game received and keeps the grid
\* of the mirror
handleGameData_scoreOnly(old, game) == [old EXCEPT !.Score = game.Score]

\* handleGameData: s.opponentBackend = &data.Game
handleGameData(old, game) == game

\* handleOpponentData on the message m at peer p: the messages sent, the new
\* mirror and the error returned
OpponentDataHandled(p, m) ==
    IF parseFailure(m, handledTypes("multiplayer"))
    THEN [out |-> <<>>, mirror |-> opponentBackend[p], err |-> ErrParse]
    ELSE IF m.type = TypeGameData
    THEN [out |-> <<>>, mirror |-> handleGameData(opponentBackend[p], m.content.Game),
          err |-> ErrNone]
    ELSE IF m.type = TypeEventData
    THEN IF m.content.Event = EventScreenLoaded
         THEN [out |-> screenLoadedReply(backend[p]), mirror |-> opponentBackend[p],
               err |-> ErrNone]
         ELSE [out |-> <<>>, mirror |-> opponentBackend[p], err |-> ErrNone]
    ELSE IF m.type = TypeRequestData
    THEN IF m.content.Request = TypeGameData
         THEN [out |-> <<GameDataMsg(backend[p])>>, mirror |-> opponentBackend[p],
               err |-> ErrNone]
         ELSE [out |-> <<>>, mirror |-> opponentBackend[p], err |-> ErrNone]
    ELSE [out |-> <<>>, mirror |-> opponentBackend[p], err |-> ErrUnsupported]

\* the callback of the multiplayer screen runs on the oldest message in flight
DeliverMultiplayer(p) ==
    /\ handler[p] = "multiplayer"
    /\ IF p = Host THEN server = "listening" ELSE client = "connected"
    /\ net[p] # <<>>
    /\ \E h \in {OpponentDataHandled(p, Head(net[p]))} :
          /\ opponentBackend' = [opponentBackend EXCEPT ![p] = h.mirror]
          /\ recv' = RecvRec(p, Head(net[p]), h.err, recv.n + 1, recv.early,
                           BadSoFar("multiplayer", Head(net[p])))
          /\ net' = IF LinkUp
                    THEN [net EXCEPT ![p] = Tail(@), ![Other(p)] = @ \o h.out]
                    ELSE [net EXCEPT ![p] = Tail(@)]
    /\ UNCHANGED <<gridVars, concVars, screen, version, client, server, handler,
                   backend, join, lobby, input, moves, rejected>>

(***************************************************************************)
(* SpecSync: from the two screens before the match to the exchange of the  *)
(* games.  The transport delivers every message in flight, and a goroutine *)
(* that can run does.                                                      *)
(***************************************************************************)
NoGrid == [Tiles |-> NewTiles(0), LastMove |-> NoDirection]

InitSync ==
    /\ grid = NoGrid
    /\ uuidCtr = 0
    /\ prev = grid.Tiles
    /\ op = NoOp
    /\ mu = FALSE
    /\ mv = IdleMove
    /\ seen = NoRead
    /\ calls = 0
    /\ twin = NoTwin
    /\ wire = NoWire
    /\ screen = [p \in Peers |-> IF p = Host THEN "lobby" ELSE "join"]
    /\ version \in [Peers -> Versions]
    /\ client = "new"
    /\ server = "listening"
    /\ net = [p \in Peers |-> <<>>]
    /\ handler = [p \in Peers |-> IF p = Host THEN "lobby" ELSE "none"]
    /\ backend = [p \in Peers |-> NoGame]
    /\ opponentBackend = [p \in Peers |-> NoGame]
    /\ join = NewJoin
    /\ lobby = NewLobby
    /\ input = [p \in Peers |-> NoInput]
    /\ moves = 0
    /\ recv = RecvRec("none", NoMessage, ErrNone, 0, 0, 0)
    /\ rejected = [p \in Peers |-> FALSE]

Deliver(p) ==
    \/ p = Guest /\ DeliverJoin
    \/ p = Host /\ DeliverLobby
    \/ DeliverMultiplayer(p)

NextSync ==
    \/ JoinPress
    \/ HostAccept
    \/ HostStart
    \/ HostEnter
    \/ GuestEnter
    \/ \E p \in Peers : Deliver(p)

SpecSync ==
    /\ InitSync
    /\ [][NextSync]_vars
    /\ \A p \in Peers : WF_vars(Deliver(p))

\* SpecJoin: the same with the goroutines of the join screen, without
\* assumptions on the scheduling
NextJoin ==
    \/ NextSync
    \/ StatusTimeout
    \/ GuestConnLost
    \/ AnimLoopExit

SpecJoin == InitSync /\ [][NextJoin]_vars

(***************************************************************************)
(* Leaving the screens.                                                    *)
(***************************************************************************)
\* the Back button of the join screen: client.Destroy, then
\* SetScreen(MultiplayerMenu), whose Exit signals done
JoinBack ==
    /\ screen[Guest] = "join"
    /\ join.done = 0
    /\ client' = "destroyed"
    /\ join' = [join EXCEPT !.done = 1]
    /\ screen' = [screen EXCEPT ![Guest] = "menu"]
    /\ UNCHANGED <<gridVars, concVars, version, server, net, handler, backend,
                   opponentBackend, lobby, input, moves, recv, rejected>>

\* the Escape key of the join screen: SetScreen(MultiplayerMenu), whose Exit
\* signals done
JoinEscape ==
    /\ screen[Guest] = "join"
    /\ join.done = 0
    /\ join' = [join EXCEPT !.done = 1]
    /\ screen' = [screen EXCEPT ![Guest] = "menu"]
    /\ UNCHANGED <<gridVars, concVars, version, client, server, net, handler,
                   backend, opponentBackend, lobby, input, moves, recv, rejected>>

\* the goroutine that took hostIsReady after the user has left the join
\* screen: SetScreen(Multiplayer) enters the multiplayer screen from the menu
GuestEnterLate ==
    /\ screen[Guest] = "menu"
    /\ join.starting
    /\ join' = [join EXCEPT !.starting = FALSE]
    /\ Enter(Guest)
    /\ UNCHANGED <<grid, prev, op, concVars, version, client, server, lobby,
                   moves, recv, rejected>>

\* the Escape key of the multiplayer screen: SetScreen(Title), whose Exit
\* destroys the server or the client
MultiplayerEscape(p) ==
    /\ screen[p] = "multiplayer"
    /\ screen' = [screen EXCEPT ![p] = "title"]
    /\ IF p = Host
       THEN server' = "destroyed" /\ UNCHANGED client
       ELSE client' = "destroyed" /\ UNCHANGED server
    /\ UNCHANGED <<gridVars, concVars, version, net, handler, backend,
                   opponentBackend, join, lobby, input, moves, recv, rejected>>

\* an error relay returns: its range over errCh ends when the destroyed
\* client closes the channel
ErrRelayExit ==
    /\ client = "destroyed"
    /\ join.errRelays > 0
    /\ join' = [join EXCEPT !.errRelays = @ - 1]
    /\ UNCHANGED <<gridVars, concVars, screen, version, client, server, net,
                   handler, backend, opponentBackend, lobby, input, moves, recv,
                   rejected>>

(***************************************************************************)
(* SpecExit: the screens with the ways out of them.  A goroutine that can  *)
(* run does, and the transport delivers every message in flight.           *)
(***************************************************************************)
NextExit ==
    \/ NextJoin
    \/ JoinBack
    \/ JoinEscape
    \/ GuestEnterLate
    \/ \E p \in Peers : MultiplayerEscape(p)
    \/ ErrRelayExit

SpecExit ==
    /\ InitSync
    /\ [][NextExit]_vars
    /\ \A p \in Peers : WF_vars(Deliver(p))
    /\ WF_vars(AnimLoopExit)
    /\ WF_vars(ErrRelayExit)
    /\ WF_vars(StatusTimeout)

(***************************************************************************)
(* SpecRearm: the join screen and the host before the match starts.  A     *)
(* goroutine that sleeps before it clears the status wakes up.             *)
(***************************************************************************)
NextRearm ==
    \/ JoinPress
    \/ HostAccept
    \/ DeliverJoin
    \/ DeliverLobby
    \/ GuestConnLost
    \/ StatusTimeout
    \/ AnimTick

SpecRearm ==
    /\ InitSync
    /\ [][NextRearm]_vars
    /\ WF_vars(StatusTimeout)

(***************************************************************************)
(* SpecBad: SpecSync with damaged messages arriving at the callbacks of    *)
(* the join screen and of the multiplayer screen.                          *)
(***************************************************************************)
BadInFlight(p) == Cardinality({i \in DOMAIN net[p] : net[p][i] \in BadMessages})

\* the transport hands the callback of p bytes that are no valid message
BadArrives(p, b) ==
    /\ LinkUp
    /\ handler[p] \in {"join", "multiplayer"}
    /\ recv.bad + BadInFlight(Host) + BadInFlight(Guest) < MaxBad
    /\ net' = [net EXCEPT ![p] = Append(@, b)]
    /\ UNCHANGED <<gridVars, concVars, screen, version, client, server, handler,
                   backend, opponentBackend, join, lobby, input, moves, recv,
                   rejected>>

NextBad ==
    \/ NextSync
    \/ \E p \in Peers : \E b \in BadMessages : BadArrives(p, b)

SpecBad ==
    /\ InitSync
    /\ [][NextBad]_vars
    /\ \A p \in Peers : WF_vars(Deliver(p))

(***************************************************************************)
(* The match: key presses, the update loop, the broadcast of the game.     *)
(***************************************************************************)
\* make(chan func(), 100)
ArenaInputCap == 100

\* a variant of Move that returns no points
pointsReturned_none(m) == 0

\* Grid.Move returns the points that move reports
pointsReturned(m) == m.points

\* Grid.Move on the grid g: every result, one for each tile that can spawn
MoveResults(g, dir, ctr) ==
    UNION {IF m.moved
           THEN {[grid |-> [Tiles |-> spawnTile(m.tiles, c, v, m.ctr), LastMove |-> dir],
                  ctr |-> m.ctr + 1, points |-> pointsReturned(m), moved |-> TRUE] :
                     c \in FirstCells(EmptyCells(m.tiles)), v \in newTileVal}
           ELSE {[grid |-> [Tiles |-> m.tiles, LastMove |-> dir],
                  ctr |-> m.ctr, points |-> pointsReturned(m), moved |-> FALSE]} :
           m \in {move(g.Tiles, dir, ctr)}}

\* Game.ExecuteMove: the move of the grid, its points added to the score
ExecuteMove(game, r) == [Grid |-> r.grid, Score |-> game.Score + r.points]

\* the callback of an arrow key: s.arenaInputCh <- func(){...}; the send
\* waits while the channel holds ArenaInputCap values
KeyPress(p, d) ==
    /\ screen[p] = "multiplayer"
    /\ ~input[p].blocked
    /\ input[p].presses < MaxFreeKeys \/ d = input[p].lastKey
    /\ input' = [input EXCEPT ![p] =
          IF Len(@.ch) < ArenaInputCap
          THEN [@ EXCEPT !.ch = Append(@, d),
                         !.presses = IF @ < MaxFreeKeys THEN @ + 1 ELSE @,
                         !.lastKey = d]
          ELSE [@ EXCEPT !.blocked = TRUE,
                         !.pending = d,
                         !.presses = IF @ < MaxFreeKeys THEN @ + 1 ELSE @,
                         !.lastKey = d]]
    /\ UNCHANGED <<gridVars, concVars, screen, version, client, server, net,
                   handler, backend, opponentBackend, join, lobby, moves, recv,
                   rejected>>

\* a variant that sends the grid and leaves the score out
sendGameData_gridOnly(game) == <<GameDataMsg([game EXCEPT !.Score = 0])>>

\* sendGameData: comms.GameData{Game: *s.backend}, serialised and sent
sendGameData(game) == <<GameDataMsg(game)>>

\* a variant that receives the value sent last
received_last(ch) == ch[Len(ch)]

\* case inputFunc := <-s.arenaInputCh: the value that has waited longest
received(ch) == Head(ch)

\* Update with a value in the channel: it is received (a send that waits
\* completes), the move runs and the game is sent to the opponent
Update(p) ==
    /\ screen[p] = "multiplayer"
    /\ input[p].ch # <<>>
    /\ moves < MaxMoves
    /\ \E r \in MoveResults(backend[p].Grid, received(input[p].ch), uuidCtr) :
          \E game \in {ExecuteMove(backend[p], r)} :
             /\ backend' = [backend EXCEPT ![p] = game]
             /\ uuidCtr' = r.ctr
             /\ net' = Sent(p, sendGameData(game))
             /\ op' = OpRec("ExecuteMove", received(input[p].ch), r.points, r.moved,
                            <<0, 0>>, 0, None, {})
    /\ input' = [input EXCEPT ![p] =
          [@ EXCEPT !.ch = IF input[p].blocked
                           THEN Append(Tail(@), input[p].pending)
                           ELSE Tail(@),
                    !.blocked = FALSE,
                    !.pending = NoDirection]]
    /\ moves' = moves + 1
    /\ UNCHANGED <<grid, prev, concVars, screen, version, client, server,
                   handler, opponentBackend, join, lobby, recv, rejected>>

(***************************************************************************)
(* SpecInput: a match under way, the two sides synchronised, the host      *)
(* playing.                                                                *)
(***************************************************************************)
GuestGame == CHOOSE game \in NewGames(2 * UUIDsPerGame) : TRUE

InitInput ==
    /\ grid = NoGrid
    /\ uuidCtr = 4 * UUIDsPerGame
    /\ prev = grid.Tiles
    /\ op = NoOp
    /\ mu = FALSE
    /\ mv = IdleMove
    /\ seen = NoRead
    /\ calls = 0
    /\ twin = NoTwin
    /\ wire = NoWire
    /\ screen = [p \in Peers |-> "multiplayer"]
    /\ version = [p \in Peers |-> "1.1"]
    /\ client = "connected"
    /\ server = "listening"
    /\ net = [p \in Peers |-> <<>>]
    /\ handler = [p \in Peers |-> "multiplayer"]
    /\ \E game \in FewGames(0) :
          /\ backend = [p \in Peers |-> IF p = Host THEN game ELSE GuestGame]
          /\ opponentBackend = [p \in Peers |-> IF p = Host THEN GuestGame ELSE game]
    /\ join = NewJoin
    /\ lobby = LobbyRec(TRUE, TRUE, Username(Guest), "")
    /\ input = [p \in Peers |-> NoInput]
    /\ moves = 0
    /\ recv = RecvRec("none", NoMessage, ErrNone, 0, 0, 0)
    /\ rejected = [p \in Peers |-> FALSE]

NextInput ==
    \/ \E d \in Directions : KeyPress(Host, d)
    \/ Update(Host)
    \/ DeliverMultiplayer(Guest)

SpecInput == InitInput /\ [][NextInput]_vars

(***************************************************************************)
(* SpecScore: the same match with no more key presses than MaxFreeKeys, so *)
(* that the channel never fills: the moves and what they add to the score. *)
(***************************************************************************)
\* one of the first MaxFreeKeys presses of an arrow key
KeyPressFree(p, d) ==
    /\ input[p].presses < MaxFreeKeys
    /\ KeyPress(p, d)

NextScore ==
    \/ \E d \in Directions : KeyPressFree(Host, d)
    \/ Update(Host)
    \/ DeliverMultiplayer(Guest)

SpecScore == InitInput /\ [][NextScore]_vars

(***************************************************************************)
(* A message on its way: Serialise at the sender, ParseMessage and the     *)
(* parser of its type at the receiver.                                     *)
(***************************************************************************)
\* the games after one more ExecuteMove, the UUIDs drawn after ctr
AfterMove(games, ctr) ==
    UNION {UNION {{ExecuteMove(game, r) : r \in MoveResults(game.Grid, dir, ctr)} :
                     dir \in Directions} : game \in games}

\* the games a peer sends: new, and after one and two moves
SentGames ==
    LET new == FewGames(0)
        one == AfterMove(new, UUIDsPerGame)
    IN  new \cup one \cup AfterMove(one, 2 * UUIDsPerGame)

\* the messages the screens send
Payloads ==
    {PlayerDataMsg(p, v) : p \in Peers, v \in Versions}
        \cup {GameDataMsg(game) : game \in SentGames}
        \cup {EventDataMsg(ev) : ev \in {EventScreenLoaded, EventHostStartGame}}
        \cup {RequestDataMsg(t) : t \in Types}

InitCodec ==
    /\ grid = NoGrid
    /\ uuidCtr = 0
    /\ prev = grid.Tiles
    /\ op = NoOp
    /\ mu = FALSE
    /\ mv = IdleMove
    /\ seen = NoRead
    /\ calls = 0
    /\ twin = NoTwin
    /\ wire \in {WireRec(x, <<>>, NoMessage, "new") : x \in Payloads}
    /\ NoPeers

\* sendPlayerData, sendGameData, sendScreenLoadedEvent, requestOpponentGameData
SerialiseStep ==
    /\ wire.stage = "new"
    /\ wire' = [wire EXCEPT !.bytes = Serialise(wire.x), !.stage = "sent"]
    /\ UNCHANGED <<gridVars, mu, mv, seen, calls, twin, peerVars>>

\* handleServerData, handleOpponentData: ParseMessage, then the parser of
\* the type
ParseStep ==
    /\ wire.stage = "sent"
    /\ \E m \in {ParseMessage(wire.bytes)} :
          wire' = [wire EXCEPT !.out = Message(m.type, ParseContent(m.type, m.content)),
                               !.stage = "parsed"]
    /\ UNCHANGED <<gridVars, mu, mv, seen, calls, twin, peerVars>>

NextCodec ==
    \/ SerialiseStep
    \/ ParseStep

SpecCodec == InitCodec /\ [][NextCodec]_vars

(***************************************************************************)
(* Properties of the Grid, checked under Spec.                             *)
(***************************************************************************)
Row4(a, b, c, d) == [j \in Idx |-> <<a, b, c, d>>[j + 1]]

\* the board after the last Move with the spawned tile taken away
WithoutSpawn ==
    IF op.moved
    THEN [ValsOf(grid.Tiles) EXCEPT ![op.spawnAt[1]][op.spawnAt[2]] = 0]
    ELSE ValsOf(grid.Tiles)

Adjacent(c, d) ==
    \/ c[1] = d[1] /\ (c[2] - d[2] = 1 \/ d[2] - c[2] = 1)
    \/ c[2] = d[2] /\ (c[1] - d[1] = 1 \/ d[1] - c[1] = 1)

Gridlocked(t) ==
    /\ \A c \in Cells : t[c[1]][c[2]].Val # 0
    /\ \A c \in Cells : \A d \in Cells :
          Adjacent(c, d) => t[c[1]][c[2]].Val # t[d[1]][d[2]].Val

\* C1: within one Move no tile produced by a merge of that Move takes part
\* in another merge of it, neither as the moving tile nor as the destination
\* (a tile keeps its UUID when it slides, so the identity follows it).
MergeOnce ==
    op.name = "Move" =>
        \A m1 \in op.merges : \A m2 \in op.merges :
            m1.src # m2.out /\ m1.dst # m2.out

\* a Move to the left after which a merged tile has an equal tile, not the
\* spawned one, right behind it
MergeOnceWitness ==
    /\ op.name = "Move"
    /\ op.dir = DirLeft
    /\ op.merges # {}
    /\ \E i \in Idx : \E j \in 0 .. (GridSize - 2) :
          /\ grid.Tiles[i][j].Cmb
          /\ grid.Tiles[i][j + 1].Val = grid.Tiles[i][j].Val
          /\ op.spawnAt # <<i, j + 1>>

\* C2: a Move that changes the board adds exactly the value of the one
\* spawned tile to the sum of the tile values; a Move that does not change
\* the board leaves the sum as it was.
MassConservation ==
    op.name = "Move" =>
        IF ValsOf(grid.Tiles) # ValsOf(prev)
        THEN /\ op.spawnVal \in {2, 4}
             /\ Mass(grid.Tiles) = Mass(prev) + op.spawnVal
        ELSE Mass(grid.Tiles) = Mass(prev)

MassConservationWitness ==
    /\ op.name = "Move"
    /\ Cardinality(op.merges) >= 2
    /\ op.spawnVal = 4
    /\ Mass(grid.Tiles) = Mass(prev) + 4

\* C3: Move(Left) turns the only non-empty row [2,2,4,0] into [4,4,0,0] and
\* returns 4; it turns the only non-empty row [4,4,0,0] into [8,0,0,0] and
\* returns 8 (the spawned tile apart).
ConcreteExample ==
    (op.name = "Move" /\ op.dir = DirLeft) =>
        \A k \in Idx :
            /\ ValsOf(prev) = RowBoard(Row4(2, 2, 4, 0), k) =>
                  /\ WithoutSpawn = RowBoard(Row4(4, 4, 0, 0), k)
                  /\ op.points = 4
            /\ ValsOf(prev) = RowBoard(Row4(4, 4, 0, 0), k) =>
                  /\ WithoutSpawn = RowBoard(Row4(8, 0, 0, 0), k)
                  /\ op.points = 8

ConcreteExampleWitness ==
    /\ op.name = "Move"
    /\ op.dir = DirLeft
    /\ ValsOf(prev) = RowBoard(Row4(2, 2, 4, 0), 0)
    /\ op.spawnAt = <<0, 2>>
    /\ op.points = 4

\* C4: Outcome returns Win for every board that holds a tile of 2048 or
\* more, whatever the other cells hold.
WinWhenever2048 ==
    (op.name = "Outcome" /\ HighestTile(grid.Tiles) >= WinTile) => op.outcome = Win

\* C5: Outcome returns Lose exactly when the board has no empty cell and no
\* two cells next to each other in a row or in a column hold equal values.
LoseExactlyWhenGridlocked ==
    op.name = "Outcome" => (op.outcome = Lose <=> Gridlocked(grid.Tiles))

LoseWitness ==
    /\ op.name = "Outcome"
    /\ op.outcome = Lose
    /\ Gridlocked(grid.Tiles)

(***************************************************************************)
(* Properties of the step-by-step Move, checked under SpecConc.            *)
(***************************************************************************)
\* C10: a read of the Grid made while a Move call is in progress sees the
\* board as it was before the whole Move or as it is after it.
ReadsSeeWholeMoves ==
    (mv.pc = "idle" /\ op.name = "Move" /\ seen.during) =>
        seen.tiles \in {ValsOf(prev), ValsOf(grid.Tiles)}

(***************************************************************************)
(* Properties of the peers.                                                *)
(***************************************************************************)
BothEntered == \A p \in Peers : screen[p] = "multiplayer"

Converged ==
    /\ opponentBackend[Host] = backend[Guest]
    /\ opponentBackend[Guest] = backend[Host]

\* C6: once the host and the guest have both entered the multiplayer screen
\* (each has sent ScreenLoaded), whatever the order of the entries and of the
\* deliveries, the run reaches a state where the mirror of each side equals
\* the game of the other
SyncConvergence == BothEntered ~> Converged

\* the two sides have converged on two games although a ScreenLoaded event
\* arrived before the multiplayer callback of its receiver was installed
SyncConvergenceWitness ==
    /\ BothEntered
    /\ Converged
    /\ backend[Host] # NoGame
    /\ backend[Guest] # NoGame
    /\ recv.early > 0

\* the join screen's callback handles player data of a version other than
\* the guest's in this step
GuestGetsOtherVersion ==
    /\ recv'.n = recv.n + 1
    /\ recv'.to = Guest
    /\ handler[Guest] = "join"
    /\ recv'.msg.type = TypePlayerData
    /\ recv'.msg.content.Version # version[Guest]

\* C7: when the guest receives player data whose version differs from its
\* own, the handler returns the incompatible-versions error and changes
\* nothing: neither game nor mirror of either side, no opponent name, no
\* status, no animation goroutine
VersionGate ==
    [][GuestGetsOtherVersion =>
          /\ recv'.err = ErrIncompatible
          /\ backend' = backend
          /\ opponentBackend' = opponentBackend
          /\ join' = join
          /\ screen' = screen]_vars

\* the guest has just refused the player data of a host of another version
VersionGateWitness ==
    /\ recv.to = Guest
    /\ recv.msg.type = TypePlayerData
    /\ recv.msg.content.Version # version[Guest]
    /\ recv.err = ErrIncompatible
    /\ join.opponentName = ""
    /\ join.animLoops = 0

\* C8: once the guest has received player data of a mismatched version its
\* connection is released and the condition is shown
MismatchDisconnects ==
    rejected[Guest] => (client # "connected" /\ join.status = StatusIncompatible)

\* C9: no arrow-key callback ever waits on the input channel
InputNeverBlocks == \A p \in Peers : ~input[p].blocked

JoinExited == screen[Guest] # "join"

\* C11: once the join screen has exited, every animation goroutine and every
\* error relay it started eventually returns
TeardownTerminates == JoinExited ~> (join.animLoops = 0 /\ join.errRelays = 0)

\* C12: the guest is on the menu or the title screen only with its client
\* destroyed, the host is on the title screen only with its server destroyed
LeftMeansReleased ==
    /\ screen[Guest] \in {"menu", "title"} => client # "connected"
    /\ screen[Host] = "title" => server # "listening"

\* a press of Join happens in this step
Pressed == join'.presses = join.presses + 1

BadHandled == recv'.n = recv.n + 1 /\ recv'.bad = recv.bad + 1

\* C14: a callback that receives bytes that are no message, a content that
\* its parser refuses or a type it has no case for returns an error (failed
\* to parse, or unsupported type for a type without a case), changes neither
\* game nor mirror nor the state of a screen, sends nothing and leaves the
\* connection and the callback as they are; the messages that follow are
\* handled, so that the two sides still converge
BadMessagesDropped ==
    /\ [][BadHandled =>
            /\ recv'.err =
                  IF /\ ParsesAsMessage(recv'.msg)
                     /\ recv'.msg.type \notin handledTypes(handler[recv'.to])
                  THEN ErrUnsupported
                  ELSE ErrParse
            /\ backend' = backend
            /\ opponentBackend' = opponentBackend
            /\ join' = join
            /\ lobby' = lobby
            /\ screen' = screen
            /\ net'[Other(recv'.to)] = net[Other(recv'.to)]
            /\ client' = client
            /\ server' = server
            /\ handler' = handler]_vars
    /\ BothEntered ~> Converged

\* a damaged message was dropped and a game that arrived after it has been
\* taken: the two sides have converged
BadMessagesDroppedWitness ==
    /\ recv.bad > 0
    /\ recv.msg.type = TypeGameData
    /\ recv.err = ErrNone
    /\ BothEntered
    /\ Converged

\* C15: an ExecuteMove adds to the score of the game exactly the points that
\* Move of its grid returns for the call, and no step lowers a score
ScoreAccumulates ==
    [][/\ moves' = moves + 1 =>
            /\ op'.points = move(backend[Host].Grid.Tiles, op'.dir, uuidCtr).points
            /\ backend'[Host].Score = backend[Host].Score + op'.points
       /\ \A p \in Peers : backend'[p].Score >= backend[p].Score]_vars

\* two moves that each merged: 4 points, then 8
ScoreAccumulatesWitness ==
    /\ moves = 2
    /\ op.name = "ExecuteMove"
    /\ op.points = 8
    /\ backend[Host].Score = 12

\* C16: two grids that are Reset and then given the same Move calls, with the
\* same outcome of every random draw, hold the same value in every cell after
\* the Reset and after every Move, and after every Move the same LastMove and
\* the same points returned
SameDrawsSameBoards ==
    op.name \in {"Reset", "Move"} /\ twin # NoTwin =>
        /\ ValsOf(grid.Tiles) = ValsOf(twin.Tiles)
        /\ op.name = "Move" =>
              /\ grid.LastMove = twin.LastMove
              /\ op.points = twin.points

\* both grids have merged in their last Move of the run; their tiles carry
\* different UUIDs
SameDrawsSameBoardsWitness ==
    /\ twin # NoTwin
    /\ calls = MaxSteps
    /\ op.name = "Move"
    /\ op.points > 0
    /\ twin.points = op.points
    /\ op.spawnVal = 4
    /\ grid.Tiles # twin.Tiles
    /\ ValsOf(grid.Tiles) = ValsOf(twin.Tiles)

NextCell(c, dir) ==
    CASE dir = DirLeft -> <<c[1], c[2] - 1>>
      [] dir = DirRight -> <<c[1], c[2] + 1>>
      [] dir = DirUp -> <<c[1] - 1, c[2]>>
      [] dir = DirDown -> <<c[1] + 1, c[2]>>

\* some tile has an empty cell or a tile of its own value next to it in
\* direction dir
CanMove(tiles, dir) ==
    \E c \in Cells :
        /\ tiles[c[1]][c[2]].Val # emptyTile
        /\ NextCell(c, dir) \in Cells
        /\ tiles[NextCell(c, dir)[1]][NextCell(c, dir)[2]].Val
              \in {emptyTile, tiles[c[1]][c[2]].Val}

\* C18 as stated: a Move in a direction in which nothing can slide and
\* nothing can merge leaves every cell with the tile it had, spawns nothing,
\* returns 0 points and sets LastMove to the direction asked for
NoOpMoveNoMutation ==
    op.name = "Move" /\ ~CanMove(prev, op.dir) =>
        /\ grid.Tiles = prev
        /\ op.points = 0
        /\ grid.LastMove = op.dir

\* C18 as the code has it: such a Move leaves the value and the UUID of every
\* cell as they were, spawns nothing, returns 0 points and sets LastMove to
\* the direction asked for, and it clears the combined flag of every tile
NoOpMoveKeepsTiles ==
    op.name = "Move" /\ ~CanMove(prev, op.dir) =>
        /\ ~op.moved
        /\ \A c \in Cells :
              grid.Tiles[c[1]][c[2]] = [prev[c[1]][c[2]] EXCEPT !.Cmb = FALSE]
        /\ op.points = 0
        /\ grid.LastMove = op.dir

\* a Move that could move nothing on a board whose last Move had merged: the
\* merged tile was still marked before the call
NoOpMoveKeepsTilesWitness ==
    /\ op.name = "Move"
    /\ ~CanMove(prev, op.dir)
    /\ NumTiles(prev) >= 2
    /\ \E c \in Cells : prev[c[1]][c[2]].Cmb
    /\ ValsOf(grid.Tiles) = ValsOf(prev)
    /\ grid.LastMove = op.dir

\* the board after the slide and merge phase of the Move just made; under
\* Spec a Move is the first call on the grid, made with the UUID counter of
\* Init
SlidTiles == move(prev, op.dir, GridSize * GridSize).tiles

\* the cells whose tile after the Move is not the tile of the board t
SpawnedCells(t) == {c \in Cells : grid.Tiles[c[1]][c[2]] # t[c[1]][c[2]]}

\* C19: a Move in which a tile slid or merged puts exactly one new tile, a 2
\* or a 4, into a cell that the slide and merge phase left empty and changes
\* no other cell; a Move in which nothing slid or merged spawns no tile
SpawnRule ==
    op.name = "Move" =>
        \A t \in {SlidTiles} : \A spawned \in {SpawnedCells(t)} :
            IF CanMove(prev, op.dir)
            THEN /\ op.moved
                 /\ Cardinality(spawned) = 1
                 /\ \A c \in spawned :
                       /\ t[c[1]][c[2]].Val = emptyTile
                       /\ grid.Tiles[c[1]][c[2]].Val \in {2, 4}
                       /\ ~grid.Tiles[c[1]][c[2]].Cmb
                 /\ NumTiles(grid.Tiles) = NumTiles(t) + 1
            ELSE /\ ~op.moved
                 /\ spawned = {}

\* a Move that merged on a board with other tiles and spawned a 4
SpawnRuleWitness ==
    /\ op.name = "Move"
    /\ CanMove(prev, op.dir)
    /\ op.points > 0
    /\ \E t \in {SlidTiles} :
          /\ NumTiles(t) >= 3
          /\ SpawnedCells(t) = {op.spawnAt}
    /\ grid.Tiles[op.spawnAt[1]][op.spawnAt[2]].Val = 4

\* exactly two cells hold a tile, each a 2 or a 4, and no tile is marked as
\* combined
TwoSeeds(tiles) ==
    /\ Cardinality({c \in Cells : tiles[c[1]][c[2]].Val # emptyTile}) = 2
    /\ \A c \in Cells :
          /\ tiles[c[1]][c[2]].Val \in {emptyTile, 2, 4}
          /\ ~tiles[c[1]][c[2]].Cmb

TileIds(tiles) ==
    {tiles[c[1]][c[2]].UUID : c \in {x \in Cells : tiles[x[1]][x[2]].Val # emptyTile}}

\* the UUIDs of all cells of a board
CellIds(tiles) == {tiles[c[1]][c[2]].UUID : c \in Cells}

\* a tile found after a Move in a cell that was empty before does not carry
\* the UUID of a tile of the board before
ArrivedTilesRenamed ==
    \A c \in Cells :
        /\ prev[c[1]][c[2]].Val = emptyTile
        /\ grid.Tiles[c[1]][c[2]].Val # emptyTile
        => grid.Tiles[c[1]][c[2]].UUID \notin TileIds(prev)

\* the tile a merge produced and the cells a Move emptied carry UUIDs that
\* no cell had before
MergedAndVacatedFresh ==
    /\ \A m \in op.merges : m.out \notin CellIds(prev)
    /\ \A c \in Cells :
          /\ prev[c[1]][c[2]].Val # emptyTile
          /\ grid.Tiles[c[1]][c[2]].Val = emptyTile
          => grid.Tiles[c[1]][c[2]].UUID \notin CellIds(prev)

\* C21: after a Move no tile that was created, that moved into an empty cell
\* or that a merge produced carries the UUID a tile had before the Move, and
\* every cell that a slide or a merge vacated carries a fresh UUID
TileIdentity ==
    op.name = "Move" => ArrivedTilesRenamed /\ MergedAndVacatedFresh

\* v is 2, 4, 8, ...
RECURSIVE IsPowerOfTwo(_)
IsPowerOfTwo(v) == v = 2 \/ (v > 2 /\ v % 2 = 0 /\ IsPowerOfTwo(v \div 2))

\* C22: the value of every cell is 0 or a power of two that is at least 2,
\* on the new board and after every Move and every Reset
TileValues ==
    \A c \in Cells :
        grid.Tiles[c[1]][c[2]].Val = emptyTile \/ IsPowerOfTwo(grid.Tiles[c[1]][c[2]].Val)

\* a Move has merged two tiles of 4 into an 8 on a board that holds a 2 as
\* well
TileValuesWitness ==
    /\ op.name = "Move"
    /\ op.points = 8
    /\ \E c, d \in Cells : grid.Tiles[c[1]][c[2]].Val = 8 /\ grid.Tiles[d[1]][d[2]].Val = 2

\* the step is the callback of p handling the message recv'.msg
Handles(p) == recv'.n = recv.n + 1 /\ recv'.to = p

IsGameRequest(m) == m.type = TypeRequestData /\ m.content.Request = TypeGameData

\* what the double exchange asks of a step in which p handles a ScreenLoaded
\* event or a request for the game
ExchangeStep(p) ==
    /\ IsScreenLoaded(recv'.msg) =>
          net'[Other(p)] =
              Sent(p, <<GameDataMsg(backend[p]), RequestDataMsg(TypeGameData)>>)[Other(p)]
    /\ IsGameRequest(recv'.msg) =>
          net'[Other(p)] = Sent(p, <<GameDataMsg(backend[p])>>)[Other(p)]
    /\ IsScreenLoaded(recv'.msg) \/ IsGameRequest(recv'.msg) =>
          /\ backend' = backend
          /\ opponentBackend' = opponentBackend

\* the callback of the multiplayer screen makes the double exchange
MultiplayerExchange ==
    [][\A p \in Peers : Handles(p) /\ handler[p] = "multiplayer" => ExchangeStep(p)]_vars

\* C23: a side that receives ScreenLoaded sends its game and then a request
\* for the game of the peer, a side that receives a request for the game
\* sends its game, and neither changes the side's own game or its mirror
DoubleExchange ==
    [][\A p \in Peers : Handles(p) => ExchangeStep(p)]_vars

\* C24: a side that receives GameData has as its mirror, from that step on,
\* exactly the game received, whole; no message received changes the side's
\* own game, and a message of another type leaves the mirror as it is
MirrorReplaced ==
    [][\A p \in Peers : Handles(p) =>
          /\ backend' = backend
          /\ opponentBackend'[Other(p)] = opponentBackend[Other(p)]
          /\ opponentBackend'[p] =
                IF recv'.msg.type = TypeGameData /\ recv'.err = ErrNone
                THEN recv'.msg.content.Game
                ELSE opponentBackend[p]]_vars

\* the guest has taken the game of the host as its mirror, in place of the
\* mirror its screen was entered with, and its own game is another one
MirrorReplacedWitness ==
    /\ recv.to = Guest
    /\ recv.msg.type = TypeGameData
    /\ opponentBackend[Guest] = backend[Host]
    /\ opponentBackend[Guest] = recv.msg.content.Game
    /\ backend[Guest] # NoGame
    /\ backend[Guest].Grid # opponentBackend[Guest].Grid

\* C25: a step changes the host's game only by applying the one move that
\* has waited longest in the input channel, which an Update takes out of the
\* channel in that step (a send that waited for room then completes at the
\* end); a key press adds its move at the end of the channel and applies
\* nothing
OneMovePerTick ==
    [][/\ backend'[Host] # backend[Host] =>
             /\ moves' = moves + 1
             /\ input[Host].ch # <<>>
             /\ op'.dir = Head(input[Host].ch)
             /\ backend'[Host].Grid.LastMove = Head(input[Host].ch)
             /\ input'[Host].ch =
                   IF input[Host].blocked
                   THEN Append(Tail(input[Host].ch), input[Host].pending)
                   ELSE Tail(input[Host].ch)
       /\ input'[Host].ch # input[Host].ch /\ moves' = moves =>
             /\ backend' = backend
             /\ \E d \in Directions : input'[Host].ch = Append(input[Host].ch, d)
       /\ moves' \in {moves, moves + 1}]_vars

\* the first of two moves entered has been applied while the second, in
\* another direction, still waits
OneMovePerTickWitness ==
    /\ moves = 1
    /\ Len(input[Host].ch) = 1
    /\ op.name = "ExecuteMove"
    /\ op.dir # input[Host].ch[1]
    /\ backend[Host].Grid.LastMove = op.dir

\* C26: the step that applies a move also sends the peer one GameData
\* message, behind the messages already in flight, that carries the game as
\* it is after the move, grid and score
BroadcastPerMove ==
    [][moves' = moves + 1 =>
          net'[Guest] = Append(net[Guest], GameDataMsg(backend'[Host]))]_vars

\* two moves have been applied and neither broadcast has been handled yet:
\* the two games are in flight in the order of the moves, the later one with
\* the score of the host's game
BroadcastPerMoveWitness ==
    /\ moves = 2
    /\ Len(net[Guest]) = 2
    /\ net[Guest][1].type = TypeGameData
    /\ net[Guest][2] = GameDataMsg(backend[Host])
    /\ net[Guest][1] # net[Guest][2]
    /\ backend[Host].Score > 0

(***************************************************************************)
(* SpecMirror: a match under way, the two sides synchronised, the host     *)
(* playing and either side starting over.                                  *)
(***************************************************************************)
\* Game.ResetKeepTimer: a new grid and a score of 0
ResetKeepTimer(ctr) == FewGames(ctr)

\* the NEW button or the R key: MultiplayerScreen.Reset resets the game and
\* the arena; nothing is sent to the opponent
ResetPressed(p) ==
    /\ screen[p] = "multiplayer"
    /\ calls < MaxCalls
    /\ \E game \in ResetKeepTimer(uuidCtr) :
          backend' = [backend EXCEPT ![p] = game]
    /\ uuidCtr' = uuidCtr + UUIDsPerGame
    /\ calls' = calls + 1
    /\ op' = OpRec("Reset", NoDirection, 0, FALSE, <<0, 0>>, 0, None, {})
    /\ UNCHANGED <<grid, prev, mu, mv, seen, twin, wire, screen, version, client,
                   server, net, handler, opponentBackend, join, lobby, input,
                   moves, recv, rejected>>

NextMirror ==
    \/ \E d \in Directions : KeyPressFree(Host, d)
    \/ Update(Host)
    \/ DeliverMultiplayer(Guest)
    \/ \E p \in Peers : ResetPressed(p)

SpecMirror == InitInput /\ [][NextMirror]_vars

\* no message is in flight and no key press waits in a channel
Quiescent ==
    \A p \in Peers : net[p] = <<>> /\ input[p].ch = <<>> /\ ~input[p].blocked

\* C27: whenever no message is in flight and both channels are empty, each
\* side's mirror of the opponent equals the opponent's own game, grid and
\* score, whatever moves and resets either side has made
MirrorAtQuiescence ==
    Quiescent => \A p \in Peers : opponentBackend[p] = backend[Other(p)]

\* the same while neither side has started over
MirrorAtQuiescenceNoReset ==
    calls = 0 => MirrorAtQuiescence

(***************************************************************************)
(* SpecRule: one Move applied to a board.                                  *)
(***************************************************************************)
NextRule ==
    /\ op.name = "init"
    /\ \E dir \in Directions : Move(dir)

SpecRule == Init /\ [][NextRule]_vars

(***************************************************************************)
(* The classical rule of 2048, line by line.                               *)
(***************************************************************************)
\* the cell of line l at distance k (0 is the leading edge) from the edge
\* the tiles travel to
LineCell(l, k, dir) ==
    IF dir = DirLeft THEN <<l, k>>
    ELSE IF dir = DirRight THEN <<l, GridSize - 1 - k>>
    ELSE IF dir = DirUp THEN <<k, l>>
    ELSE <<GridSize - 1 - k, l>>

\* the values of line l, the leading edge first
LineOf(vals, l, dir) ==
    [k \in 1 .. GridSize |-> vals[LineCell(l, k - 1, dir)[1]][LineCell(l, k - 1, dir)[2]]]

NonEmpty(v) == v # 0

\* the non-empty values, packed
Pack(line) == SelectSeq(line, NonEmpty)

\* equal neighbours merged once each, from the leading edge
RECURSIVE MergePairs(_)
MergePairs(line) ==
    IF Len(line) < 2 THEN line
    ELSE IF line[1] = line[2]
         THEN <<line[1] + line[2], 0>> \o MergePairs(Tail(Tail(line)))
         ELSE <<line[1]>> \o MergePairs(Tail(line))

\* pack, merge, pack again, and empty cells behind
ClassicalLine(line) ==
    LET packed == Pack(MergePairs(Pack(line)))
    IN  [k \in 1 .. GridSize |-> IF k <= Len(packed) THEN packed[k] ELSE 0]

\* the board of values the classical rule gives
Classical(vals, dir) ==
    LET lines == [l \in Idx |-> ClassicalLine(LineOf(vals, l, dir))]
        dist(c) == IF dir = DirLeft THEN c[2]
                   ELSE IF dir = DirRight THEN GridSize - 1 - c[2]
                   ELSE IF dir = DirUp THEN c[1]
                   ELSE GridSize - 1 - c[1]
        lineNo(c) == IF dir \in {DirLeft, DirRight} THEN c[1] ELSE c[2]
    IN  [i \in Idx |-> [j \in Idx |-> lines[lineNo(<<i, j>>)][dist(<<i, j>>) + 1]]]

\* C28: the values that the slide and merge phase of Move leaves on the
\* board are those of the classical rule applied to every line, and the
\* phase reports a movement exactly when these differ from the values before
ClassicalRule ==
    op.name = "Move" =>
        \A slid \in {WithoutSpawn} :
        \A c \in {Classical(ValsOf(prev), op.dir)} :
            /\ slid = c
            /\ op.moved <=> c # ValsOf(prev)

\* a Move down on a board with a column 2, 2, 4, 4 from the top: two merges
\* in one line, 4 above 8 at the bottom of the column afterwards
ClassicalRuleWitness ==
    /\ op.name = "Move"
    /\ op.dir = DirDown
    /\ op.moved
    /\ \E j \in Idx :
          /\ prev[0][j].Val = 2 /\ prev[1][j].Val = 2
          /\ prev[2][j].Val = 4 /\ prev[3][j].Val = 4
          /\ grid.Tiles[2][j].Val = 4 /\ grid.Tiles[3][j].Val = 8
          /\ Classical(ValsOf(prev), DirDown)[1][j] = 0

\* the UUID given to the tile that the last merge of the Move produced
LastMergeId == SetMax({x.out : x \in op.merges})

TermPatterns == {<<0, 0, 0, 0>>, <<0, 1, 0, 1>>}

TermBoards ==
    {b \in {WithIds(FullBoard(r, p)) : r \in FamRows, p \in TermPatterns} : NumTiles(b) >= 2}

InitTerm ==
    /\ grid \in {[Tiles |-> b, LastMove |-> d] : b \in TermBoards, d \in {NoDirection}}
    /\ uuidCtr = GridSize * GridSize
    /\ prev = grid.Tiles
    /\ op = NoOp
    /\ mu = FALSE
    /\ mv = IdleMove
    /\ seen = NoRead
    /\ calls = 0
    /\ twin = NoTwin
    /\ wire = NoWire
    /\ NoPeers

\* the one call
MoveCalled(dir) ==
    /\ op.name = "init"
    /\ MoveBegin(dir)

NextTerm ==
    \/ \E dir \in Directions : MoveCalled(dir)
    \/ MoveTransposeIn
    \/ MoveRow
    \/ MoveTransposeBack
    \/ MoveSpawn
    \/ MoveReturn

SpecTerm == InitTerm /\ [][NextTerm]_vars /\ WF_vars(NextTerm)

\* C30: a call of Move that has begun returns: the loop of passes ends in a
\* pass in which nothing moves, and the spawn step is reached with a tile
\* to spawn only on a board with an empty cell
MoveTerminates ==
    /\ [](mv.pc = "spawn" /\ mv.moved => EmptyCells(grid.Tiles) # {})
    /\ (mv.pc # "idle") ~> (mv.pc = "idle" /\ op.name = "Move")


\* a Move on a board without an empty cell has returned: its merges, two or
\* more, made room and a tile was spawned
MoveTerminatesWitness ==
    /\ op.name = "Move"
    /\ mv.pc = "idle"
    /\ op.moved
    /\ NumTiles(prev) = GridSize * GridSize
    /\ Cardinality(op.merges) >= 2
    /\ grid.Tiles[op.spawnAt[1]][op.spawnAt[2]].Val = op.spawnVal

(***************************************************************************)
(* SpecShow: a match near its end, the two sides synchronised, the guest   *)
(* making a move, the host drawing its screen.  The end of Update reads    *)
(* the mirror once for isLoss and once again for isWin, and the network    *)
(* goroutine may replace the mirror between the two reads.                 *)
(***************************************************************************)
\* a variant of the switch that tests isWin first
matchShown_winFirst(lost, own, mirror) ==
    IF own = Win \/ mirror = Lose THEN Win
    ELSE IF lost THEN Lose
    ELSE None

\* isLoss := s.backend.Grid.Outcome() == grid.Lose ||
\*           s.opponentBackend.Grid.Outcome() == grid.Win
matchIsLoss(own, mirror) == own = Lose \/ mirror = Win

\* isWin and the switch: updateLose, updateWin or updateNormal, named by
\* the outcome the side's own arena is given
matchShown(lost, own, mirror) ==
    IF lost THEN Lose
    ELSE IF own = Win \/ mirror = Lose THEN Win
    ELSE None

\* the line of the check for a loss: both games are read
DrawBegin(p) ==
    /\ screen[p] = "multiplayer"
    /\ op.name # "isLoss"
    /\ op' = OpRec("isLoss", NoDirection, 0,
                   matchIsLoss(Outcome(backend[p].Grid.Tiles),
                               Outcome(opponentBackend[p].Grid.Tiles)),
                   <<0, 0>>, 0, None, {})
    /\ prev' = opponentBackend[p].Grid.Tiles
    /\ UNCHANGED <<grid, uuidCtr, concVars, screen, version, client, server, net,
                   handler, backend, opponentBackend, join, lobby, input, moves,
                   recv, rejected>>

\* the line of the check for a win and the switch: both games are read again
DrawEnd(p) ==
    /\ op.name = "isLoss"
    /\ op' = OpRec("Draw", NoDirection, 0, op.moved, <<0, 0>>, 0,
                   matchShown(op.moved, Outcome(backend[p].Grid.Tiles),
                              Outcome(opponentBackend[p].Grid.Tiles)),
                   {})
    /\ UNCHANGED <<grid, uuidCtr, prev, concVars, screen, version, client, server,
                   net, handler, backend, opponentBackend, join, lobby, input,
                   moves, recv, rejected>>

\* the host's game is under way, won or lost (no empty cell, no equal
\* neighbours); the guest's is under way, lost, one merge from 2048 or one
\* move from a full board
InitShow ==
    /\ grid = NoGrid
    /\ uuidCtr = 4 * UUIDsPerGame
    /\ prev = grid.Tiles
    /\ op = NoOp
    /\ mu = FALSE
    /\ mv = IdleMove
    /\ seen = NoRead
    /\ calls = 0
    /\ twin = NoTwin
    /\ wire = NoWire
    /\ screen = [p \in Peers |-> "multiplayer"]
    /\ version = [p \in Peers |-> "1.1"]
    /\ client = "connected"
    /\ server = "listening"
    /\ net = [p \in Peers |-> <<>>]
    /\ handler = [p \in Peers |-> "multiplayer"]
    /\ LET checker == FullBoard(Row4(2, 4, 2, 4), <<0, 1, 0, 1>>)
           game(b) == [Grid |-> [Tiles |-> WithIds(b), LastMove |-> NoDirection],
                       Score |-> 0]
           under == game(RowBoard(Row4(2, 4, 0, 0), 0))
           won == game(RowBoard(Row4(2048, 2, 0, 0), 0))
           lost == game(checker)
           nearWin == game(RowBoard(Row4(1024, 1024, 0, 0), 0))
           nearLoss == game([checker EXCEPT ![0] = Row4(0, 2, 4, 2)])
       IN  \E h \in {under, won, lost} : \E g \in {under, lost, nearWin, nearLoss} :
              /\ backend = [p \in Peers |-> IF p = Host THEN h ELSE g]
              /\ opponentBackend = [p \in Peers |-> IF p = Host THEN g ELSE h]
    /\ join = NewJoin
    /\ lobby = LobbyRec(TRUE, TRUE, Username(Guest), "")
    /\ input = [p \in Peers |-> NoInput]
    /\ moves = 0
    /\ recv = RecvRec("none", NoMessage, ErrNone, 0, 0, 0)
    /\ rejected = [p \in Peers |-> FALSE]

\* the guest presses one arrow key
NextShow ==
    \/ \E d \in Directions : input[Guest].presses = 0 /\ KeyPress(Guest, d)
    \/ Update(Guest)
    \/ DeliverMultiplayer(Host)
    \/ DrawBegin(Host)
    \/ DrawEnd(Host)

SpecShow == InitShow /\ [][NextShow]_vars

\* what a side shows in a tick that reads the own outcome and the outcome
\* of the mirror: lose before win before normal play
Display(own, mirror) ==
    IF own = Lose \/ mirror = Win THEN Lose
    ELSE IF own = Win \/ mirror = Lose THEN Win
    ELSE None

\* what side p shows in a tick during which nothing changes
Shows(p) ==
    LET own == Outcome(backend[p].Grid.Tiles)
        mirror == Outcome(opponentBackend[p].Grid.Tiles)
    IN  matchShown(matchIsLoss(own, mirror), own, mirror)

Mirrored == \A p \in Peers : opponentBackend[p] = backend[Other(p)]

\* the step that ends the drawing of a tick
Drawn == op.name = "isLoss" /\ op'.name = "Draw"

\* what the tick shows follows the rule for the mirror as the first or as
\* the second line read it
ShownByTheRule ==
    Drawn => \A own \in {Outcome(backend[Host].Grid.Tiles)} :
             op'.outcome \in {Display(own, Outcome(prev)),
                              Display(own, Outcome(opponentBackend[Host].Grid.Tiles))}

\* the same for the mirror as it is when the tick ends only
ShownByTheLastMirror ==
    [][Drawn => op'.outcome = Display(Outcome(backend[Host].Grid.Tiles),
                                      Outcome(opponentBackend[Host].Grid.Tiles))]_vars

\* C31: a tick shows lose if the own outcome is Lose or the mirror's is Win,
\* else win if the own outcome is Win or the mirror's is Lose, else normal
\* play, the mirror being the one that one of the two lines read; and while
\* both mirrors equal the games of the peers, the two sides never both show
\* win
MatchResult ==
    /\ [][ShownByTheRule]_vars
    /\ [](Mirrored => ~(Shows(Host) = Win /\ Shows(Guest) = Win))

\* both sides have reached 2048 and the mirrors are exact: the host's tick
\* has shown lose, and so would the guest's
MatchResultWitness ==
    /\ op.name = "Draw"
    /\ op.outcome = Lose
    /\ Mirrored
    /\ moves > 0
    /\ Outcome(backend[Host].Grid.Tiles) = Win
    /\ Outcome(backend[Guest].Grid.Tiles) = Win
    /\ Shows(Guest) = Lose

====
